---- MODULE Spec2Model ----
(***************************************************************************)
(* A model of the SICP register-machine simulator: the assembler           *)
(* (src/src/assemble.rs), the builder make_machine (src/src/lib.rs) and    *)
(* the machine with its fetch/dispatch loop (src/src/machine/machine.rs,   *)
(* stack.rs, register.rs).  Next to the machine runs a reference machine   *)
(* that keeps the whole program immutable and jumps to absolute indices.   *)
(***************************************************************************)
EXTENDS Integers, Sequences, FiniteSets, TLC

\* ------------------------------------------------------------------ bounds
\* largest small number a driver presets a register to (next to 27 and 1023)
MaxNum == 1
\* how many set_register / allocate_register / get_register calls a driver
\* makes on one machine before it starts it
MaxCalls == 2
\* the largest number typed on standard input
MaxInput == 5
\* how many pushes are made on a Stack driven on its own between two initializes
MaxPushes == 3
\* how many environments the environment table holds at most
MaxEnvs == 3
\* the largest number of instructions in a text made of several
MaxInsts == 2

\* the number of calls of start() on one machine
MaxRuns == 2

\* ------------------------------------------------------------------ values
\* machine::value::Value
VNum(n) == [k |-> "Num", v |-> n]
VBool(b) == [k |-> "Boolean", v |-> b]
VSym(s) == [k |-> "Symbol", v |-> s]
VStr(s) == [k |-> "String", v |-> s]
VList(l) == [k |-> "List", v |-> l]
VNil == [k |-> "Nil", v |-> 0]
VPtr(p) == [k |-> "Pointer", v |-> p]

\* Register::new: the content of a fresh register
Unassigned == VSym("*unassigned*")

\* parser::RMLValue
RNum(n) == [k |-> "Num", v |-> n]
RSym(s) == [k |-> "Symbol", v |-> s]
RStr(s) == [k |-> "Str", v |-> s]
RList(l) == [k |-> "List", v |-> l]
\* a Float is kept as its integer digits and its fraction digits, <<>> for none
RFloat(n, f) == [k |-> "Float", v |-> <<n, f>>]

\* lib.rs rmlvalue_to_value: a list literal gets a Nil terminator appended
RECURSIVE rmlvalue_to_value(_)
rmlvalue_to_value(r) ==
    CASE r.k = "Num" -> VNum(r.v)
      [] r.k = "Str" -> VStr(r.v)
      [] r.k = "Symbol" -> VSym(r.v)
      [] r.k = "List" ->
            VList([i \in 1..Len(r.v) |-> rmlvalue_to_value(r.v[i])] \o <<VNil>>)

\* ------------------------------------------------------------------ AST
\* parser::RMLNode
Sym(n) == [t |-> "Symbol", name |-> n]
Reg(n) == [t |-> "Reg", name |-> n]
Label(n) == [t |-> "Label", name |-> n]
Const(r) == [t |-> "Constant", val |-> r]
Operation(n, as) == [t |-> "Operation", name |-> n, args |-> as]
Assignment(r, e) == [t |-> "Assignment", reg |-> r, rhs |-> e]
Branch(l) == [t |-> "Branch", target |-> l]
GotoLabel(l) == [t |-> "GotoLabel", target |-> l]
PerformOp(o) == [t |-> "PerformOp", op |-> o]
TestOp(o) == [t |-> "TestOp", op |-> o]
Save(r) == [t |-> "Save", reg |-> r]
Restore(r) == [t |-> "Restore", reg |-> r]
List(l) == [t |-> "List", val |-> l]

\* ------------------------------------------------------------------ controllers
\* examples/gcd.rs CONTROLLER_TEXT, as parse returns it
GcdNodes ==
    << Sym("controller"),
       Sym("test-b"),
       TestOp(Operation("=", <<Reg("b"), Const(RNum(0))>>)),
       Branch(Label("gcd-done")),
       Assignment("t", Operation("rem", <<Reg("a"), Reg("b")>>)),
       Assignment("a", Reg("b")),
       Assignment("b", Reg("t")),
       GotoLabel(Label("test-b")),
       Sym("gcd-done") >>

\* examples/recursive_factorial.rs CONTROLLER_TEXT, as parse returns it
FactNodes ==
    << Sym("controller"),
       PerformOp(Operation("print", <<Const(RStr("Please enter a number:"))>>)),
       Assignment("n", Operation("read", <<>>)),
       Assignment("continue", Label("fact-done")),
       Sym("fact-loop"),
       TestOp(Operation("=", <<Reg("n"), Const(RNum(1))>>)),
       Branch(Label("base-case")),
       Save("continue"),
       Save("n"),
       Assignment("n", Operation("-", <<Reg("n"), Const(RNum(1))>>)),
       Assignment("continue", Label("after-fact")),
       GotoLabel(Label("fact-loop")),
       Sym("after-fact"),
       Restore("n"),
       Restore("continue"),
       Assignment("val", Operation("*", <<Reg("n"), Reg("val")>>)),
       GotoLabel(Reg("continue")),
       Sym("base-case"),
       Assignment("val", Const(RNum(1))),
       GotoLabel(Reg("continue")),
       Sym("fact-done"),
       PerformOp(Operation("print", <<Reg("val")>>)),
       Sym("done") >>

\* (controller A (goto (label B)) B (perform (op done)))
AbNodes ==
    << Sym("controller"),
       Sym("A"),
       GotoLabel(Label("B")),
       Sym("B"),
       PerformOp(Operation("done", <<>>)) >>

\* (controller (assign a (const 1)) (const 1) (perform (op done))):
\* rml_instruction accepts a bare (const ...) in the instruction stream
BareNodes ==
    << Sym("controller"),
       Assignment("a", Const(RNum(1))),
       Const(RNum(1)),
       PerformOp(Operation("done", <<>>)) >>

\* (controller A (perform (op done)) A): the label A declared twice
DupNodes ==
    << Sym("controller"),
       Sym("A"),
       PerformOp(Operation("done", <<>>)),
       Sym("A") >>

\* (controller (assign a (const 1)) (save a) (save a) (assign a (const 2)) (restore a))
StackNodes ==
    << Sym("controller"),
       Assignment("a", Const(RNum(1))),
       Save("a"),
       Save("a"),
       Assignment("a", Const(RNum(2))),
       Restore("a") >>

\* (controller (branch (label L)) (test (op =) (reg a) (const 1))
\*   (branch (label L)) (test (op *) (reg a) (const 1)) L (perform (op done))):
\* a branch before any test, and a test on an operation that returns a number
BranchNodes ==
    << Sym("controller"),
       Branch(Label("L")),
       TestOp(Operation("=", <<Reg("a"), Const(RNum(1))>>)),
       Branch(Label("L")),
       TestOp(Operation("*", <<Reg("a"), Const(RNum(1))>>)),
       Sym("L"),
       PerformOp(Operation("done", <<>>)) >>

\* (controller (save a) (save b) (restore a) (restore b) (save a) (restore a)
\*   (restore a)): the last restore finds the stack empty
PopNodes ==
    << Sym("controller"),
       Save("a"),
       Save("b"),
       Restore("a"),
       Restore("b"),
       Save("a"),
       Restore("a"),
       Restore("a") >>

\* (controller (test (op =) (reg a) (const 0)) (branch (label direct))
\*   (test (op =) (reg a) (const 1)) (branch (label viareg))
\*   (test (op =) (reg a) (const 27)) (branch (label nowhere))
\*  direct (goto (label nowhere))
\*  viareg (assign a (label nowhere)) (goto (reg a))):
\* no label `nowhere` is declared
UnknownNodes ==
    << Sym("controller"),
       TestOp(Operation("=", <<Reg("a"), Const(RNum(0))>>)),
       Branch(Label("direct")),
       TestOp(Operation("=", <<Reg("a"), Const(RNum(1))>>)),
       Branch(Label("viareg")),
       TestOp(Operation("=", <<Reg("a"), Const(RNum(27))>>)),
       Branch(Label("nowhere")),
       Sym("direct"),
       GotoLabel(Label("nowhere")),
       Sym("viareg"),
       Assignment("a", Label("nowhere")),
       GotoLabel(Reg("a")) >>

\* (controller (assign a (const 2)) (goto (label loop))
\*  loop (test (op =) (reg a) (const 0)) (branch (label out))
\*       (assign a (op -) (reg a) (const 1)) (goto (label loop))
\*  out): counts a down from 2 to 0
LoopNodes ==
    << Sym("controller"),
       Assignment("a", Const(RNum(2))),
       GotoLabel(Label("loop")),
       Sym("loop"),
       TestOp(Operation("=", <<Reg("a"), Const(RNum(0))>>)),
       Branch(Label("out")),
       Assignment("a", Operation("-", <<Reg("a"), Const(RNum(1))>>)),
       GotoLabel(Label("loop")),
       Sym("out") >>

\* (controller (perform (op done) (const 1))
\*   (test (op =) (reg a) (const 1) (const 2))
\*   (assign a (op -) (const 5) (const 1)) (perform (op mark))):
\* operations given more arguments than their procedures ask for, as many,
\* and, the last, fewer
ArgsNodes ==
    << Sym("controller"),
       PerformOp(Operation("done", <<Const(RNum(1))>>)),
       TestOp(Operation("=", <<Reg("a"), Const(RNum(1)), Const(RNum(2))>>)),
       Assignment("a", Operation("-", <<Const(RNum(5)), Const(RNum(1))>>)),
       PerformOp(Operation("mark", <<>>)) >>

\* (controller A A (perform (op done))): A declared twice before any instruction
DupFirstNodes ==
    << Sym("controller"),
       Sym("A"),
       Sym("A"),
       PerformOp(Operation("done", <<>>)) >>

\* (controller (perform (op done)) controller): the leading symbol declared again
DupControllerNodes ==
    << Sym("controller"),
       PerformOp(Operation("done", <<>>)),
       Sym("controller") >>

\* (controller (save a) (save a) (restore a) (perform (op print-stack-statistics))
\*   (assign a (op print-stack-statistics)) (save a) (assign a (op initialize-stack))
\*   (save a))
InitNodes ==
    << Sym("controller"),
       Save("a"),
       Save("a"),
       Restore("a"),
       PerformOp(Operation("print-stack-statistics", <<>>)),
       Assignment("a", Operation("print-stack-statistics", <<>>)),
       Save("a"),
       Assignment("a", Operation("initialize-stack", <<>>)),
       Save("a") >>

\* (controller (test (op =) (reg a) (const 0)) (branch (label viareg))
\*             (goto (reg a))
\*  viareg (assign a (label out)) (goto (reg a))
\*  out (perform (op done))):
\* a goto through a register the controller has put a label in, and one
\* through the register as the driver left it
ReturnNodes ==
    << Sym("controller"),
       TestOp(Operation("=", <<Reg("a"), Const(RNum(0))>>)),
       Branch(Label("viareg")),
       GotoLabel(Reg("a")),
       Sym("viareg"),
       Assignment("a", Label("out")),
       GotoLabel(Reg("a")),
       Sym("out"),
       PerformOp(Operation("done", <<>>)) >>

\* (controller (perform (op print) (const 1)) (perform (op tick))): calls a
\* procedure the driver installs under the builder's name print, and one the
\* driver installs twice
OverrideNodes ==
    << Sym("controller"),
       PerformOp(Operation("print", <<Const(RNum(1))>>)),
       PerformOp(Operation("tick", <<>>)) >>

\* (controller (save a) (restore zz)): no register zz is allocated
LostNodes ==
    << Sym("controller"),
       Save("a"),
       Restore("zz") >>

\* (controller (save a) (perform (op print-stack-statistics))
\*   (perform (op initialize-stack)) (perform (op done)))
BuiltinNodes ==
    << Sym("controller"),
       Save("a"),
       PerformOp(Operation("print-stack-statistics", <<>>)),
       PerformOp(Operation("initialize-stack", <<>>)),
       PerformOp(Operation("done", <<>>)) >>

\* the elements of the list literal of ListNodes: a number, a list in the
\* list, an empty list
ListElements == <<RNum(1), RList(<<RSym("x")>>), RList(<<>>)>>

\* instructions no text parses to: a driver builds them itself and hands them
\* to Machine::install_instructions
ListNodes ==
    << Assignment("a", List(ListElements)),
       Assignment("b", Const(RList(ListElements))) >>

\* The controller texts of the model.  A text is given by what parse makes of
\* it: parses = FALSE is a text parse rejects, such as "(controller (assign a"
Controllers ==
    [ gcd  |-> [parses |-> TRUE, nodes |-> GcdNodes],
      fact |-> [parses |-> TRUE, nodes |-> FactNodes],
      ab   |-> [parses |-> TRUE, nodes |-> AbNodes],
      bare |-> [parses |-> TRUE, nodes |-> BareNodes],
      dup  |-> [parses |-> TRUE, nodes |-> DupNodes],
      stk  |-> [parses |-> TRUE, nodes |-> StackNodes],
      br   |-> [parses |-> TRUE, nodes |-> BranchNodes],
      pop  |-> [parses |-> TRUE, nodes |-> PopNodes],
      unk  |-> [parses |-> TRUE, nodes |-> UnknownNodes],
      dup1 |-> [parses |-> TRUE, nodes |-> DupFirstNodes],
      dupc |-> [parses |-> TRUE, nodes |-> DupControllerNodes],
      init |-> [parses |-> TRUE, nodes |-> InitNodes],
      loop |-> [parses |-> TRUE, nodes |-> LoopNodes],
      args |-> [parses |-> TRUE, nodes |-> ArgsNodes],
      ret  |-> [parses |-> TRUE, nodes |-> ReturnNodes],
      ovr  |-> [parses |-> TRUE, nodes |-> OverrideNodes],
      lost |-> [parses |-> TRUE, nodes |-> LostNodes],
      blt  |-> [parses |-> TRUE, nodes |-> BuiltinNodes],
      \* "()", the text of the driver that installs ListNodes itself
      lst  |-> [parses |-> TRUE, nodes |-> <<>>],
      bad  |-> [parses |-> FALSE, nodes |-> <<>>] ]

\* parser::parse
parse(text) ==
    IF text.parses THEN [ok |-> TRUE, nodes |-> text.nodes]
    ELSE [ok |-> FALSE, nodes |-> <<>>]

\* ------------------------------------------------------------------ assembler
\* the loop of assemble looking for a duplicate only once an instruction was seen
AssembleNode_checks_after_insts(st, node) ==
    IF st.status # "ok" THEN st
    ELSE IF node.t = "Symbol" THEN
        IF st.insts # <<>> /\ node.name \in DOMAIN st.labels
        THEN [st EXCEPT !.status = "err"]
        ELSE [st EXCEPT
                !.current_label =
                    IF st.insts # <<>> THEN node.name ELSE st.current_label,
                !.labels = [l \in DOMAIN st.labels \cup {node.name} |->
                                IF l = node.name THEN <<>> ELSE st.labels[l]]]
    ELSE IF st.current_label = ""
        THEN [st EXCEPT !.insts = Append(st.insts, node)]
        ELSE IF st.current_label \in DOMAIN st.labels
            THEN [st EXCEPT !.labels[st.current_label] =
                                Append(st.labels[st.current_label], node)]
            ELSE [st EXCEPT !.status = "err"]

\* one turn of the loop of assemble over the parsed nodes
AssembleNode(st, node) ==
    IF st.status # "ok" THEN st
    ELSE IF node.t = "Symbol" THEN
        IF node.name \in DOMAIN st.labels
        THEN [st EXCEPT !.status = "err"]
        ELSE [st EXCEPT
                !.current_label =
                    IF st.insts # <<>> THEN node.name ELSE st.current_label,
                !.labels = [l \in DOMAIN st.labels \cup {node.name} |->
                                IF l = node.name THEN <<>> ELSE st.labels[l]]]
    ELSE IF st.current_label = ""
        THEN [st EXCEPT !.insts = Append(st.insts, node)]
        ELSE IF st.current_label \in DOMAIN st.labels
            THEN [st EXCEPT !.labels[st.current_label] =
                                Append(st.labels[st.current_label], node)]
            ELSE [st EXCEPT !.status = "err"]

RECURSIVE AssembleFrom(_, _, _)
AssembleFrom(st, nodes, i) ==
    IF i > Len(nodes) THEN st
    ELSE AssembleFrom(AssembleNode(st, nodes[i]), nodes, i + 1)

\* assemble.rs assemble: Ok((insts, labels)), Err(message), or the panic of
\* parse(controller_text).unwrap() on a text that does not parse
assemble(text) ==
    LET p == parse(text)
        st0 == [status |-> "ok", insts |-> <<>>,
                labels |-> [l \in {} |-> <<>>], current_label |-> ""]
    IN IF ~p.ok THEN [st0 EXCEPT !.status = "panic"]
       ELSE AssembleFrom(st0, p.nodes, 1)

\* ------------------------------------------------------------------ registers
\* Machine::allocate_register: the guard name.eq("pc") && name.eq("flag") && ...
\* is the code's; a fresh Register replaces whatever the table held
allocate_register(table, name) ==
    IF name = "pc" /\ name = "flag" /\ name \in DOMAIN table
    THEN [ok |-> FALSE, err |-> "AllocateFailure", table |-> table]
    ELSE [ok |-> TRUE, err |-> "",
          table |-> [r \in DOMAIN table \cup {name} |->
                        IF r = name THEN Unassigned ELSE table[r]]]

\* Machine::get_register_content
get_register_content(table, name) ==
    IF name \in DOMAIN table
    THEN [ok |-> TRUE, err |-> "", val |-> table[name]]
    ELSE [ok |-> FALSE, err |-> "LookupFailure", val |-> VNil]

\* set_register_content that makes the register when the table has none of the name
set_register_content_creates(table, name, value) ==
    [ok |-> TRUE, err |-> "",
     table |-> [r \in DOMAIN table \cup {name} |-> IF r = name THEN value ELSE table[r]]]

\* Machine::set_register_content
set_register_content(table, name, value) ==
    IF name \in DOMAIN table
    THEN [ok |-> TRUE, err |-> "", table |-> [table EXCEPT ![name] = value]]
    ELSE [ok |-> FALSE, err |-> "LookupFailure", table |-> table]

\* ------------------------------------------------------------------ stack
\* Stack::new
NewStack == [stack |-> <<>>, num_pushes |-> 0, max_depth |-> 0, curr_depth |-> 0]

\* Stack::is_empty
is_empty(s) == s.curr_depth = 0 /\ s.stack = <<>>

\* Stack::push leaving the current depth as it is
StackPush_keeps_depth(s, item) ==
    [stack |-> Append(s.stack, item),
     num_pushes |-> s.num_pushes + 1,
     curr_depth |-> s.curr_depth,
     max_depth |-> s.max_depth]

\* Stack::push taking the new depth for the maximum depth
StackPush_forgets_max(s, item) ==
    [stack |-> Append(s.stack, item),
     num_pushes |-> s.num_pushes + 1,
     curr_depth |-> s.curr_depth + 1,
     max_depth |-> s.curr_depth + 1]

\* Stack::push
StackPush(s, item) ==
    [stack |-> Append(s.stack, item),
     num_pushes |-> s.num_pushes + 1,
     curr_depth |-> s.curr_depth + 1,
     max_depth |-> IF s.curr_depth + 1 > s.max_depth
                   THEN s.curr_depth + 1 ELSE s.max_depth]

\* Stack::pop leaving the current depth as it is
StackPop_keeps_depth(s) ==
    IF s.stack # <<>>
    THEN [ok |-> TRUE, item |-> s.stack[Len(s.stack)],
          s |-> [s EXCEPT !.stack = SubSeq(s.stack, 1, Len(s.stack) - 1)]]
    ELSE [ok |-> FALSE, item |-> VNil, s |-> s]

\* Stack::pop returning the oldest item of the stack
StackPop_oldest_first(s) ==
    IF s.stack # <<>>
    THEN [ok |-> TRUE, item |-> s.stack[1],
          s |-> [s EXCEPT !.stack = Tail(s.stack),
                          !.curr_depth = s.curr_depth - 1]]
    ELSE [ok |-> FALSE, item |-> VNil, s |-> s]

\* Stack::pop taking the popped item off the push counter as well
StackPop_uncounts_push(s) ==
    IF s.stack # <<>>
    THEN [ok |-> TRUE, item |-> s.stack[Len(s.stack)],
          s |-> [s EXCEPT !.stack = SubSeq(s.stack, 1, Len(s.stack) - 1),
                          !.curr_depth = s.curr_depth - 1,
                          !.num_pushes = s.num_pushes - 1]]
    ELSE [ok |-> FALSE, item |-> VNil, s |-> s]

\* Stack::pop counting the depth down even when it finds the stack empty
StackPop_counts_failure(s) ==
    IF s.stack # <<>>
    THEN [ok |-> TRUE, item |-> s.stack[Len(s.stack)],
          s |-> [s EXCEPT !.stack = SubSeq(s.stack, 1, Len(s.stack) - 1),
                          !.curr_depth = s.curr_depth - 1]]
    ELSE [ok |-> FALSE, item |-> VNil, s |-> [s EXCEPT !.curr_depth = s.curr_depth - 1]]

\* Stack::pop
StackPop(s) ==
    IF s.stack # <<>>
    THEN [ok |-> TRUE, item |-> s.stack[Len(s.stack)],
          s |-> [s EXCEPT !.stack = SubSeq(s.stack, 1, Len(s.stack) - 1),
                          !.curr_depth = s.curr_depth - 1]]
    ELSE [ok |-> FALSE, item |-> VNil, s |-> s]

\* Stack::initialize leaving the maximum depth as it is
StackInitialize_keeps_max(s) ==
    [stack |-> <<>>, num_pushes |-> 0, max_depth |-> s.max_depth, curr_depth |-> 0]

\* Stack::initialize
StackInitialize(s) == NewStack

\* ------------------------------------------------------------------ procedures
\* a procedure table entry: Procedure { name, proc, min_arg_num }
Proc(f, n) == [fn |-> f, min_arg_num |-> n]

\* the procedure lists the drivers hand to make_machine
\* (examples/gcd.rs operations(), examples/recursive_factorial.rs operations())
UserProcedures(c) ==
    CASE c = "gcd" -> << <<"=", Proc("eq", 2)>>, <<"rem", Proc("rem", 2)>> >>
      [] c = "fact" -> << <<"read", Proc("read", 0)>>, <<"print", Proc("print", 1)>>,
                          <<"=", Proc("eq", 2)>>, <<"-", Proc("sub", 2)>>,
                          <<"*", Proc("mul", 2)>> >>
      [] c \in {"br", "unk", "ret"} -> << <<"=", Proc("eq", 2)>>, <<"*", Proc("mul", 2)>>,
                                    <<"done", Proc("done", 0)>> >>
      [] c = "loop" -> << <<"=", Proc("eq", 2)>>, <<"-", Proc("sub", 2)>> >>
      \* mark: the function of done held by a procedure that asks for one argument
      [] c = "args" -> << <<"=", Proc("eq", 2)>>, <<"-", Proc("sub", 2)>>,
                          <<"done", Proc("done", 0)>>, <<"mark", Proc("done", 1)>> >>
      \* print: the function of done under the name of the builder's print;
      \* tick: first a procedure that asks for one argument, then one that asks for none
      [] c = "ovr" -> << <<"print", Proc("done", 0)>>, <<"tick", Proc("print", 1)>>,
                         <<"tick", Proc("done", 0)>> >>
      \* the function of done under the names of the machine's two stack operations
      [] c = "blt" -> << <<"initialize-stack", Proc("done", 0)>>,
                         <<"print-stack-statistics", Proc("done", 0)>> >>
      [] OTHER -> << <<"done", Proc("done", 0)>> >>

\* the registers the drivers name (examples/gcd.rs, recursive_factorial.rs main)
DriverRegisters(c) ==
    CASE c = "gcd" -> <<"a", "b", "t">>
      [] c = "fact" -> <<"continue", "n", "val">>
      [] c \in {"pop", "lst"} -> <<"a", "b">>
      [] OTHER -> <<"a">>

AllNum(args) == \A i \in 1..Len(args) : args[i].k = "Num"

\* The functions held by the procedures: the closures of the examples' operations()
\* and of make_machine (read, print).  A wrong argument type is the TypeError of
\* the argument conversion; `done` appends 1 to a list outside the machine.
ApplyFunction(fn, args, input) ==
    CASE fn = "eq" ->
            IF AllNum(args) THEN [status |-> "ok", val |-> VBool(args[1].v = args[2].v)]
            ELSE [status |-> "TypeError", val |-> VNil]
      [] fn = "rem" ->
            \* i32 % 0 panics
            IF ~AllNum(args) THEN [status |-> "TypeError", val |-> VNil]
            ELSE IF args[2].v = 0 THEN [status |-> "panic", val |-> VNil]
            ELSE [status |-> "ok", val |-> VNum(args[1].v % args[2].v)]
      [] fn = "sub" ->
            \* u64 subtraction below zero panics
            IF ~AllNum(args) THEN [status |-> "TypeError", val |-> VNil]
            ELSE IF args[1].v < args[2].v THEN [status |-> "panic", val |-> VNil]
            ELSE [status |-> "ok", val |-> VNum(args[1].v - args[2].v)]
      [] fn = "mul" ->
            IF AllNum(args) THEN [status |-> "ok", val |-> VNum(args[1].v * args[2].v)]
            ELSE [status |-> "TypeError", val |-> VNil]
      [] fn = "read" -> [status |-> "ok", val |-> rmlvalue_to_value(RNum(input))]
      [] fn = "print" -> [status |-> "ok", val |-> VNil]
      [] fn = "done" -> [status |-> "ok", val |-> VNil]

\* Procedure::execute refusing also a call with just as many arguments as asked
ProcedureExecute_wants_more(p, args, input) ==
    IF Len(args) <= p.min_arg_num
    THEN [status |-> "ArgsTooFew", val |-> VNil]
    ELSE ApplyFunction(p.fn, args, input)

\* Procedure::execute
ProcedureExecute(p, args, input) ==
    IF Len(args) < p.min_arg_num
    THEN [status |-> "ArgsTooFew", val |-> VNil]
    ELSE ApplyFunction(p.fn, args, input)

\* install_procedures keeping the procedure a name already has
RECURSIVE install_procedures_first_wins(_, _)
install_procedures_first_wins(ops, list) ==
    IF list = <<>> THEN ops
    ELSE install_procedures_first_wins(
            [n \in DOMAIN ops \cup {list[1][1]} |->
                IF n \in DOMAIN ops THEN ops[n] ELSE list[1][2]],
            Tail(list))

\* Machine::install_procedures, last write wins
RECURSIVE install_procedures(_, _)
install_procedures(ops, list) ==
    IF list = <<>> THEN ops
    ELSE install_procedures(
            [n \in DOMAIN ops \cup {list[1][1]} |->
                IF n = list[1][1] THEN list[1][2] ELSE ops[n]],
            Tail(list))

\* ------------------------------------------------------------------ machine data
\* What an instruction works on, apart from pc and the instruction list:
\* d.regs (register_table), d.flag, d.st (the Stack), d.ops (the_ops),
\* d.input (the line on stdin), d.done_list (the list `done` appends to).

\* an outcome of a step: status "ok", "panic" or the error returned
Out(status, d, val) == [status |-> status, d |-> d, val |-> val]

\* call_operation looking in the procedure table before its own two names
call_operation_table_first(d, name, args) ==
    IF name \in DOMAIN d.ops
    THEN LET r == ProcedureExecute(d.ops[name], args, d.input)
         IN Out(r.status,
                IF r.status = "ok" /\ d.ops[name].fn = "done"
                THEN [d EXCEPT !.done_list = Append(d.done_list, 1)]
                ELSE d,
                r.val)
    ELSE CASE name = "initialize-stack" ->
                Out("ok", [d EXCEPT !.st = StackInitialize(d.st)], VSym("Done"))
           [] name = "print-stack-statistics" -> Out("ok", d, VSym("Done"))
           [] OTHER -> Out("NotFound", d, VNil)

\* Machine::call_operation
call_operation(d, name, args) ==
    CASE name = "initialize-stack" ->
            Out("ok", [d EXCEPT !.st = StackInitialize(d.st)], VSym("Done"))
      [] name = "print-stack-statistics" -> Out("ok", d, VSym("Done"))
      [] OTHER ->
            IF name \notin DOMAIN d.ops THEN Out("NotFound", d, VNil)
            ELSE LET r == ProcedureExecute(d.ops[name], args, d.input)
                 IN Out(r.status,
                        IF r.status = "ok" /\ d.ops[name].fn = "done"
                        THEN [d EXCEPT !.done_list = Append(d.done_list, 1)]
                        ELSE d,
                        r.val)

\* the argument loop putting each value in front of those before it
RECURSIVE EvalArgs_last_first(_, _, _, _)
EvalArgs_last_first(d, args, i, acc) ==
    IF i > Len(args) THEN [status |-> "ok", vals |-> acc]
    ELSE IF args[i].t = "Reg" THEN
            LET g == get_register_content(d.regs, args[i].name)
            IN IF g.ok THEN EvalArgs_last_first(d, args, i + 1, <<g.val>> \o acc)
               ELSE [status |-> g.err, vals |-> acc]
    ELSE IF args[i].t = "Constant"
         THEN EvalArgs_last_first(d, args, i + 1,
                                  <<rmlvalue_to_value(args[i].val)>> \o acc)
         ELSE [status |-> "panic", vals |-> acc]

\* the argument loop of Machine::perform_operation: the values of the arguments
\* in order, or the first failure
RECURSIVE EvalArgs(_, _, _, _)
EvalArgs(d, args, i, acc) ==
    IF i > Len(args) THEN [status |-> "ok", vals |-> acc]
    ELSE IF args[i].t = "Reg" THEN
            LET g == get_register_content(d.regs, args[i].name)
            IN IF g.ok THEN EvalArgs(d, args, i + 1, Append(acc, g.val))
               ELSE [status |-> g.err, vals |-> acc]
    ELSE IF args[i].t = "Constant"
         THEN EvalArgs(d, args, i + 1, Append(acc, rmlvalue_to_value(args[i].val)))
         ELSE [status |-> "panic", vals |-> acc]

\* Machine::perform_operation
perform_operation(d, op_name, args) ==
    LET a == EvalArgs(d, args, 1, <<>>)
    IN IF a.status # "ok" THEN Out(a.status, d, VNil)
       ELSE call_operation(d, op_name, a.vals)

\* Machine::execute_assignment, up to advance_pc
execute_assignment(d, reg_name, operation) ==
    CASE operation.t = "Reg" ->
            LET g == get_register_content(d.regs, operation.name)
                s == set_register_content(d.regs, reg_name, g.val)
            IN IF ~g.ok THEN Out(g.err, d, VNil)
               ELSE IF ~s.ok THEN Out(s.err, d, VNil)
               ELSE Out("ok", [d EXCEPT !.regs = s.table], VNil)
      [] operation.t = "Constant" ->
            LET s == set_register_content(d.regs, reg_name,
                                          rmlvalue_to_value(operation.val))
            IN IF ~s.ok THEN Out(s.err, d, VNil)
               ELSE Out("ok", [d EXCEPT !.regs = s.table], VNil)
      [] operation.t \in {"Label", "Symbol"} ->
            LET s == set_register_content(d.regs, reg_name, VSym(operation.name))
            IN IF ~s.ok THEN Out(s.err, d, VNil)
               ELSE Out("ok", [d EXCEPT !.regs = s.table], VNil)
      [] operation.t = "List" ->
            LET s == set_register_content(d.regs, reg_name,
                        VList([i \in 1..Len(operation.val) |->
                                  rmlvalue_to_value(operation.val[i])]))
            IN IF ~s.ok THEN Out(s.err, d, VNil)
               ELSE Out("ok", [d EXCEPT !.regs = s.table], VNil)
      [] operation.t = "Operation" ->
            LET r == perform_operation(d, operation.name, operation.args)
                s == set_register_content(r.d.regs, reg_name, r.val)
            IN IF r.status # "ok" THEN r
               ELSE IF ~s.ok THEN Out(s.err, r.d, VNil)
               ELSE Out("ok", [r.d EXCEPT !.regs = s.table], VNil)
      [] OTHER -> Out("panic", d, VNil)

\* extract_label_name that takes whatever the register holds for a label
extract_label_name_any_content(d, label) ==
    CASE label.t = "Reg" ->
            LET g == get_register_content(d.regs, label.name)
            IN IF ~g.ok THEN [status |-> g.err, name |-> ""]
               ELSE IF g.val.k = "Symbol" THEN [status |-> "ok", name |-> g.val.v]
               ELSE [status |-> "ok", name |-> "out"]
      [] label.t = "Label" -> [status |-> "ok", name |-> label.name]
      [] OTHER -> [status |-> "panic", name |-> ""]

\* Machine::extract_label_name
extract_label_name(d, label) ==
    CASE label.t = "Reg" ->
            LET g == get_register_content(d.regs, label.name)
            IN IF ~g.ok THEN [status |-> g.err, name |-> ""]
               ELSE IF g.val.k = "Symbol" THEN [status |-> "ok", name |-> g.val.v]
               ELSE [status |-> "UnmatchedContentType", name |-> ""]
      [] label.t = "Label" -> [status |-> "ok", name |-> label.name]
      [] OTHER -> [status |-> "panic", name |-> ""]

\* Machine::execute_perform, up to advance_pc
execute_perform(d, operation) ==
    IF operation.t = "Operation"
    THEN perform_operation(d, operation.name, operation.args)
    ELSE Out("panic", d, VNil)

\* Machine::execute_restore, up to advance_pc: the pop happens before the
\* register is looked up
execute_restore(d, reg_name) ==
    LET p == StackPop(d.st)
        s == set_register_content(d.regs, reg_name, p.item)
    IN IF ~p.ok THEN Out("StackError", [d EXCEPT !.st = p.s], VNil)
       ELSE IF ~s.ok THEN Out(s.err, [d EXCEPT !.st = p.s], VNil)
       ELSE Out("ok", [d EXCEPT !.st = p.s, !.regs = s.table], VNil)

\* execute_save moving the content to the stack: the register is left unassigned
execute_save_moves(d, reg_name) ==
    LET g == get_register_content(d.regs, reg_name)
    IN IF ~g.ok THEN Out(g.err, d, VNil)
       ELSE Out("ok", [d EXCEPT !.st = StackPush(d.st, g.val),
                                !.regs = [d.regs EXCEPT ![reg_name] = Unassigned]], VNil)

\* Machine::execute_save, up to advance_pc
execute_save(d, reg_name) ==
    LET g == get_register_content(d.regs, reg_name)
    IN IF ~g.ok THEN Out(g.err, d, VNil)
       ELSE Out("ok", [d EXCEPT !.st = StackPush(d.st, g.val)], VNil)

\* execute_test storing the result in flag before looking at its type
execute_test_flag_first(d, operation) ==
    IF operation.t # "Operation" THEN Out("panic", d, VNil)
    ELSE LET r == perform_operation(d, operation.name, operation.args)
         IN IF r.status # "ok" THEN r
            ELSE IF r.val.k = "Boolean" THEN Out("ok", [r.d EXCEPT !.flag = r.val], VNil)
            ELSE Out("TypeError", [r.d EXCEPT !.flag = r.val], VNil)

\* Machine::execute_test, up to advance_pc
execute_test(d, operation) ==
    IF operation.t # "Operation" THEN Out("panic", d, VNil)
    ELSE LET r == perform_operation(d, operation.name, operation.args)
         IN IF r.status # "ok" THEN r
            ELSE IF r.val.k = "Boolean" THEN Out("ok", [r.d EXCEPT !.flag = r.val], VNil)
            ELSE Out("TypeError", r.d, VNil)

\* execute_branch looking at flag first and at the label only when it jumps
execute_branch_flag_first(d, label, known) ==
    LET n == extract_label_name(d, label)
        taken == d.flag.k = "Boolean" /\ d.flag.v = TRUE
    IN IF n.status # "ok" THEN [status |-> n.status, jump |-> FALSE, name |-> ""]
       ELSE IF taken /\ n.name \notin known
            THEN [status |-> "UnknownLabel", jump |-> FALSE, name |-> n.name]
       ELSE [status |-> "ok", jump |-> taken, name |-> n.name]

\* Machine::execute_branch and Machine::execute_goto up to the jump itself:
\* the label they resolve, whether it is known, whether the jump is taken
execute_branch(d, label, known) ==
    LET n == extract_label_name(d, label)
    IN IF n.status # "ok" THEN [status |-> n.status, jump |-> FALSE, name |-> ""]
       ELSE IF n.name \notin known
            THEN [status |-> "UnknownLabel", jump |-> FALSE, name |-> n.name]
       ELSE [status |-> "ok",
             jump |-> (d.flag.k = "Boolean" /\ d.flag.v = TRUE),
             name |-> n.name]

execute_goto(d, label, known) ==
    LET n == extract_label_name(d, label)
    IN IF n.status # "ok" THEN [status |-> n.status, jump |-> FALSE, name |-> ""]
       ELSE IF n.name \notin known
            THEN [status |-> "UnknownLabel", jump |-> FALSE, name |-> n.name]
       ELSE [status |-> "ok", jump |-> TRUE, name |-> n.name]

\* the seven instruction forms Machine::execute dispatches on
InstForms == {"Assignment", "Branch", "GotoLabel", "PerformOp", "Restore",
              "Save", "TestOp"}

\* how start() ends for an outcome that is not "ok"
PhaseAfter(status) == IF status = "panic" THEN "panic" ELSE "halted"

\* ------------------------------------------------------------------ reference machine
\* The machine the jump rule is compared with: the whole program stays in
\* place, a label stands for the absolute index just after its declaration.
WholeProgram(nodes) == SelectSeq(nodes, LAMBDA n : n.t # "Symbol")

DeclaredLabels(nodes) == {nodes[i].name : i \in {j \in 1..Len(nodes) : nodes[j].t = "Symbol"}}

\* the number of instructions that stand before the declaration of label l
LabelIndex(nodes, l) ==
    LET at == CHOOSE i \in 1..Len(nodes) : nodes[i].t = "Symbol" /\ nodes[i].name = l
    IN Cardinality({j \in 1..(at - 1) : nodes[j].t # "Symbol"})

\* one turn of the reference machine's loop on the node list `nodes`
RefStep(r, nodes) ==
    LET prog == WholeProgram(nodes)
        known == DeclaredLabels(nodes)
        inst == prog[r.pc + 1]
        stop(status, d) == [r EXCEPT !.phase = PhaseAfter(status),
                                     !.result = status, !.d = d]
        next(o) == IF o.status = "ok" THEN [r EXCEPT !.pc = r.pc + 1, !.d = o.d]
                   ELSE stop(o.status, o.d)
        jump(b) == IF b.status # "ok" THEN stop(b.status, r.d)
                   ELSE IF b.jump THEN [r EXCEPT !.pc = LabelIndex(nodes, b.name)]
                   ELSE [r EXCEPT !.pc = r.pc + 1]
    IN IF r.pc = Len(prog) THEN [r EXCEPT !.phase = "halted", !.result = "Done"]
       ELSE CASE inst.t = "Assignment" -> next(execute_assignment(r.d, inst.reg, inst.rhs))
              [] inst.t = "Branch" -> jump(execute_branch(r.d, inst.target, known))
              [] inst.t = "GotoLabel" -> jump(execute_goto(r.d, inst.target, known))
              [] inst.t = "PerformOp" -> next(execute_perform(r.d, inst.op))
              [] inst.t = "Restore" -> next(execute_restore(r.d, inst.reg))
              [] inst.t = "Save" -> next(execute_save(r.d, inst.reg))
              [] inst.t = "TestOp" -> next(execute_test(r.d, inst.op))
              [] OTHER -> stop("panic", r.d)

\* ------------------------------------------------------------------ state
VARIABLES
    ctl,            \* the controller text handed to make_machine
    register_names, \* the register names handed to make_machine
    stdin,          \* the number typed on standard input
    phase,          \* "new", "ready", "running", "halted", "failed", "panic"
    make_result,    \* what make_machine returned: "none", "ok", an error, "panic"
    start_result,   \* what start() returned: "none", "Done", an error, "panic"
    api_result,     \* the last allocate/get/set_register call and its result
    calls,          \* the number of such calls made
    pc,             \* Machine.pc
    flag,           \* Machine.flag
    stack,          \* Machine.stack
    the_inst_seq,   \* Machine.the_inst_seq
    the_labels,     \* Machine.the_labels
    the_ops,        \* Machine.the_ops
    register_table, \* Machine.register_table
    done_list,      \* the list outside the machine the procedure `done` appends to
    start_regs,     \* register_table as it was when start() was called
    ref,            \* the reference machine
    hist,           \* what was done to the stack since Stack::new or the last
                    \* Stack::initialize: pushes, pops, greatest depth reached
    envs,           \* ENVIRONMENTS, the environment table of the hosted evaluator
    env_call,       \* the last call made on the environment table and its result
    rt,             \* a text, what parse made of it, the text written back and its parse
    runs            \* the number of calls of start() made on the machine

vars == <<ctl, register_names, stdin, phase, make_result, start_result, api_result, calls, pc, flag,
          stack, the_inst_seq, the_labels, the_ops, register_table, done_list,
          start_regs, ref, hist, envs, env_call, rt, runs>>

EmptyMap == [x \in {} |-> <<>>]

NoCall == [op |-> "none", name |-> "", status |-> "", val |-> VNil]

\* the global environment as the lazy_static of ENVIRONMENTS builds it: true,
\* false and the primitive procedures, `+` standing for all of them
GlobalEnvironment ==
    [n \in {"true", "false", "+"} |->
        CASE n = "true" -> VBool(TRUE)
          [] n = "false" -> VBool(FALSE)
          [] OTHER -> VList(<<VSym("primitive"), VSym("+")>>)]

NoRoundTrip == [phase |-> "new", text |-> <<>>, first |-> <<>>, shown |-> <<>>,
                again |-> [ok |-> FALSE, nodes |-> <<>>]]

\* no call on the environment table yet
NoEnvCall == [op |-> "none", env |-> VNil, args |-> <<>>, status |-> "", val |-> VNil]

\* the history of a stack nothing was done to
NoHist == [pushes |-> 0, pops |-> 0, peak |-> 0, pending |-> <<>>]

\* the history after one more push, of item: pending lists the items pushed
\* and not popped since, the latest last
HistPush(h, item) ==
    [pushes |-> h.pushes + 1, pops |-> h.pops,
     peak |-> IF h.pushes + 1 - h.pops > h.peak THEN h.pushes + 1 - h.pops ELSE h.peak,
     pending |-> Append(h.pending, item)]

\* the history after one more pop that returned an item
HistPop(h) ==
    [h EXCEPT !.pops = h.pops + 1,
              !.pending = SubSeq(h.pending, 1, Len(h.pending) - 1)]

\* the numbers a driver presets registers to
PresetValues == {VNum(n) : n \in 0..MaxNum} \cup {VNum(27), VNum(1023)}

\* Machine::new
Init ==
    /\ ctl \in DOMAIN Controllers
    /\ register_names = <<>>
    /\ stdin \in (IF ctl = "fact" THEN 1..MaxInput ELSE {1})
    /\ phase = "new"
    /\ make_result = "none"
    /\ start_result = "none"
    /\ api_result = NoCall
    /\ calls = 0
    /\ pc = Unassigned
    /\ flag = Unassigned
    /\ stack = NewStack
    /\ the_inst_seq = <<>>
    /\ the_labels = EmptyMap
    /\ the_ops = EmptyMap
    /\ register_table = EmptyMap
    /\ done_list = <<>>
    /\ start_regs = EmptyMap
    /\ ref = [phase |-> "new", pc |-> 0, result |-> "none", d |-> <<>>]
    /\ hist = NoHist
    /\ envs = <<GlobalEnvironment>>
    /\ env_call = NoEnvCall
    /\ rt = NoRoundTrip
    /\ runs = 0

\* the data the instructions of the machine work on
D == [regs |-> register_table, flag |-> flag, st |-> stack, ops |-> the_ops,
      input |-> stdin, done_list |-> done_list]

\* the node list the reference machine runs: the installed controller
RefNodes == IF make_result = "ok" THEN Controllers[ctl].nodes ELSE <<>>

\* ------------------------------------------------------------------ make_machine
\* the loop of make_machine over register_names
RECURSIVE AllocateAll(_, _)
AllocateAll(table, names) ==
    IF names = <<>> THEN [ok |-> TRUE, err |-> "", table |-> table]
    ELSE LET a == allocate_register(table, names[1])
         IN IF ~a.ok THEN a ELSE AllocateAll(a.table, Tail(names))

\* the register name lists the drivers pass: the example's, and the same with
\* its first name listed twice
RegisterLists(c) ==
    {DriverRegisters(c), DriverRegisters(c) \o <<DriverRegisters(c)[1]>>}

\* lib.rs make_machine
MakeMachine ==
    /\ phase = "new"
    /\ calls = 0
    /\ \E names \in RegisterLists(ctl) :
        LET a == AllocateAll(EmptyMap, names)
            ops == install_procedures(
                     install_procedures(EmptyMap,
                        << <<"read", Proc("read", 0)>>, <<"print", Proc("print", 1)>> >>),
                     UserProcedures(ctl))
            asm == assemble(Controllers[ctl])
            built == a.ok /\ asm.status = "ok"
        IN /\ register_names' = names
           /\ make_result' = (IF ~a.ok THEN a.err
                              ELSE CASE asm.status = "panic" -> "panic"
                                     [] asm.status = "err" -> "UnableAssemble"
                                     [] OTHER -> "ok")
           /\ phase' = (IF built THEN "ready"
                        ELSE IF a.ok /\ asm.status = "panic" THEN "panic"
                        ELSE "failed")
           /\ register_table' = (IF built THEN a.table ELSE register_table)
           /\ the_ops' = (IF built THEN ops ELSE the_ops)
           /\ the_inst_seq' = (IF built THEN asm.insts ELSE the_inst_seq)
           /\ the_labels' = (IF built THEN asm.labels ELSE the_labels)
    /\ UNCHANGED <<ctl, stdin, start_result, api_result, calls, pc, flag, stack,
                   done_list, start_regs, ref, hist, envs, env_call, rt, runs>>

\* a call of Machine::install_instructions on a machine got from Machine::new,
\* by a driver that hands it the instructions itself: those of ListNodes, or
\* those of the controller blt, which then run with no procedure installed
InstallInstructions ==
    /\ ctl \in {"lst", "blt"}
    /\ phase = "new"
    /\ the_inst_seq = <<>>
    /\ the_inst_seq' = (IF ctl = "lst" THEN ListNodes ELSE Tail(BuiltinNodes))
    /\ UNCHANGED <<ctl, register_names, stdin, phase, make_result, start_result, api_result,
                   calls, pc, flag, stack, the_labels, the_ops, register_table, done_list,
                   start_regs, ref, hist, envs, env_call, rt, runs>>

\* ------------------------------------------------------------------ register calls
\* the names the callers use
ApiNames == {DriverRegisters(ctl)[i] : i \in 1..Len(DriverRegisters(ctl))}
               \cup {"pc", "flag"}

Callable == phase \in {"new", "ready"} /\ calls < MaxCalls

\* a call of Machine::allocate_register
AllocateRegister ==
    /\ Callable
    /\ \E name \in ApiNames :
        LET a == allocate_register(register_table, name)
        IN /\ register_table' = a.table
           /\ api_result' = [op |-> "allocate", name |-> name,
                             status |-> (IF a.ok THEN "ok" ELSE a.err), val |-> VNil]
    /\ calls' = calls + 1
    /\ UNCHANGED <<ctl, register_names, stdin, phase, make_result, start_result, pc, flag, stack,
                   the_inst_seq, the_labels, the_ops, done_list, start_regs, ref, hist, envs, env_call, rt, runs>>

\* a call of Machine::get_register_content
GetRegister ==
    /\ Callable
    /\ \E name \in ApiNames :
        LET g == get_register_content(register_table, name)
        IN api_result' = [op |-> "get", name |-> name,
                          status |-> (IF g.ok THEN "ok" ELSE g.err), val |-> g.val]
    /\ calls' = calls + 1
    /\ UNCHANGED <<ctl, register_names, stdin, phase, make_result, start_result, pc, flag, stack,
                   the_inst_seq, the_labels, the_ops, register_table, done_list,
                   start_regs, ref, hist, envs, env_call, rt, runs>>

\* a call of Machine::set_register_content
SetRegister ==
    /\ Callable
    /\ \E name \in ApiNames, value \in PresetValues :
        LET s == set_register_content(register_table, name, value)
        IN /\ register_table' = s.table
           /\ api_result' = [op |-> "set", name |-> name,
                             status |-> (IF s.ok THEN "ok" ELSE s.err), val |-> value]
    /\ calls' = calls + 1
    /\ UNCHANGED <<ctl, register_names, stdin, phase, make_result, start_result, pc, flag, stack,
                   the_inst_seq, the_labels, the_ops, done_list, start_regs, ref, hist, envs, env_call, rt, runs>>

\* ------------------------------------------------------------------ start and the loop
\* Machine::reset_pc
reset_pc == VNum(0)

\* advance_pc stepping over the next instruction
advance_pc_skips(p) ==
    IF p.k = "Num" THEN [ok |-> TRUE, pc |-> VNum(p.v + 2)]
    ELSE [ok |-> FALSE, pc |-> p]

\* Machine::advance_pc
advance_pc(p) ==
    IF p.k = "Num" THEN [ok |-> TRUE, pc |-> VNum(p.v + 1)]
    ELSE [ok |-> FALSE, pc |-> p]

\* the reference machine takes its turn whenever the machine takes one
RefTurn == ref' = IF ref.phase = "running" THEN RefStep(ref, RefNodes) ELSE ref

\* the drivers that call start() again on the machine after start() has returned
StartingAgain == {"ret", "ovr"}

\* Machine::start up to the loop: reset_pc; the reference machine starts from
\* the same registers, flag and stack
Start ==
    /\ \/ phase \in {"new", "ready"}
       \/ phase = "halted" /\ ctl \in StartingAgain /\ runs < MaxRuns
    /\ pc' = reset_pc
    /\ phase' = "running"
    /\ start_result' = "none"
    /\ runs' = runs + 1
    /\ start_regs' = register_table
    /\ ref' = [phase |-> "running", pc |-> 0, result |-> "none", d |-> D]
    /\ UNCHANGED <<ctl, register_names, stdin, make_result, api_result, calls, flag,
                   stack, the_inst_seq, the_labels, the_ops, register_table, done_list, hist, envs, env_call, rt>>

\* the loop of Machine::execute has an instruction to fetch
Fetching == phase = "running" /\ pc.k = "Num" /\ pc.v < Len(the_inst_seq)

Inst == the_inst_seq[pc.v + 1]

\* the operation an instruction calls, "" when it calls none
OperationOf(inst) ==
    IF inst.t \in {"PerformOp", "TestOp"} /\ inst.op.t = "Operation" THEN inst.op
    ELSE IF inst.t = "Assignment" /\ inst.rhs.t = "Operation" THEN inst.rhs
    ELSE Operation("", <<>>)

\* the history after the instruction inst ended with outcome o: a Save that
\* succeeded pushed, a Restore that found the stack non-empty popped, a call of
\* initialize-stack that got its arguments initialized
HistAfter(h, inst, o) ==
    CASE inst.t = "Save" /\ o.status = "ok" -> HistPush(h, register_table[inst.reg])
      [] inst.t = "Restore" /\ o.status # "StackError" -> HistPop(h)
      [] /\ OperationOf(inst).name = "initialize-stack"
         /\ EvalArgs(D, OperationOf(inst).args, 1, <<>>).status = "ok" -> NoHist
      [] OTHER -> h

\* the end of an instruction that does not jump: the outcome o, then advance_pc
Finish(o) ==
    LET a == advance_pc(pc)
        status == IF o.status # "ok" THEN o.status
                  ELSE IF ~a.ok THEN "UnmatchedContentType" ELSE "ok"
    IN /\ register_table' = o.d.regs
       /\ flag' = o.d.flag
       /\ stack' = o.d.st
       /\ done_list' = o.d.done_list
       /\ pc' = (IF status = "ok" THEN a.pc ELSE pc)
       /\ phase' = (IF status = "ok" THEN phase ELSE PhaseAfter(status))
       /\ start_result' = (IF status = "ok" THEN start_result ELSE status)
       /\ hist' = HistAfter(hist, Inst, o)
       /\ RefTurn
       /\ UNCHANGED <<ctl, register_names, stdin, make_result, api_result, calls, the_inst_seq,
                      the_labels, the_ops, start_regs, envs, env_call, rt, runs>>

\* the jump rule landing one instruction after the label
Jump_past_first(b) ==
    LET a == advance_pc(pc)
        status == IF b.status # "ok" THEN b.status
                  ELSE IF ~b.jump /\ ~a.ok THEN "UnmatchedContentType" ELSE "ok"
    IN /\ the_inst_seq' = (IF status = "ok" /\ b.jump /\ the_labels[b.name] # <<>>
                           THEN Tail(the_labels[b.name])
                           ELSE the_inst_seq)
       /\ pc' = (IF status # "ok" THEN pc ELSE IF b.jump THEN reset_pc ELSE a.pc)
       /\ phase' = (IF status = "ok" THEN phase ELSE PhaseAfter(status))
       /\ start_result' = (IF status = "ok" THEN start_result ELSE status)
       /\ RefTurn
       /\ UNCHANGED <<ctl, register_names, stdin, make_result, api_result, calls, flag, stack,
                      the_labels, the_ops, register_table, done_list, start_regs, hist, envs, env_call, rt, runs>>

\* the end of a branch or goto with outcome b: the jump rule of the machine
Jump(b) ==
    LET a == advance_pc(pc)
        status == IF b.status # "ok" THEN b.status
                  ELSE IF ~b.jump /\ ~a.ok THEN "UnmatchedContentType" ELSE "ok"
    IN /\ the_inst_seq' = (IF status = "ok" /\ b.jump THEN the_labels[b.name]
                           ELSE the_inst_seq)
       /\ pc' = (IF status # "ok" THEN pc ELSE IF b.jump THEN reset_pc ELSE a.pc)
       /\ phase' = (IF status = "ok" THEN phase ELSE PhaseAfter(status))
       /\ start_result' = (IF status = "ok" THEN start_result ELSE status)
       /\ RefTurn
       /\ UNCHANGED <<ctl, register_names, stdin, make_result, api_result, calls, flag, stack,
                      the_labels, the_ops, register_table, done_list, start_regs, hist, envs, env_call, rt, runs>>

ExecuteAssignment ==
    /\ Fetching /\ Inst.t = "Assignment"
    /\ Finish(execute_assignment(D, Inst.reg, Inst.rhs))

ExecuteBranch ==
    /\ Fetching /\ Inst.t = "Branch"
    /\ Jump(execute_branch(D, Inst.target, DOMAIN the_labels))

ExecuteGoto ==
    /\ Fetching /\ Inst.t = "GotoLabel"
    /\ Jump(execute_goto(D, Inst.target, DOMAIN the_labels))

ExecutePerform ==
    /\ Fetching /\ Inst.t = "PerformOp"
    /\ Finish(execute_perform(D, Inst.op))

ExecuteRestore ==
    /\ Fetching /\ Inst.t = "Restore"
    /\ Finish(execute_restore(D, Inst.reg))

ExecuteSave ==
    /\ Fetching /\ Inst.t = "Save"
    /\ Finish(execute_save(D, Inst.reg))

ExecuteTest ==
    /\ Fetching /\ Inst.t = "TestOp"
    /\ Finish(execute_test(D, Inst.op))

\* the arm `_ => unreachable!()` of Machine::execute
ExecuteUnreachable ==
    /\ Fetching /\ Inst.t \notin InstForms
    /\ Finish(Out("panic", D, VNil))

\* the ways the loop of Machine::execute returns without fetching
ExecuteReturn ==
    /\ phase = "running"
    /\ ~Fetching
    /\ start_result' = (IF pc.k # "Num" THEN "UnmatchedContentType"
                        ELSE IF pc.v = Len(the_inst_seq) THEN "Done"
                        ELSE "NoMoreInsts")
    /\ phase' = "halted"
    /\ RefTurn
    /\ UNCHANGED <<ctl, register_names, stdin, make_result, api_result, calls, pc, flag, stack,
                   the_inst_seq, the_labels, the_ops, register_table, done_list,
                   start_regs, hist, envs, env_call, rt, runs>>

\* the reference machine runs on after the machine has stopped
RefRun ==
    /\ phase \in {"halted", "panic"}
    /\ ref.phase = "running"
    /\ ref' = RefStep(ref, RefNodes)
    /\ UNCHANGED <<ctl, register_names, stdin, phase, make_result, start_result, api_result, calls,
                   pc, flag, stack, the_inst_seq, the_labels, the_ops, register_table,
                   done_list, start_regs, hist, envs, env_call, rt, runs>>

Next ==
    \/ MakeMachine
    \/ InstallInstructions
    \/ AllocateRegister
    \/ GetRegister
    \/ SetRegister
    \/ Start
    \/ ExecuteAssignment
    \/ ExecuteBranch
    \/ ExecuteGoto
    \/ ExecutePerform
    \/ ExecuteRestore
    \/ ExecuteSave
    \/ ExecuteTest
    \/ ExecuteUnreachable
    \/ ExecuteReturn
    \/ RefRun

Spec == Init /\ [][Next]_vars

\* ------------------------------------------------------------------ a Stack on its own
\* The Stack as stack.rs's tests drive it: push, pop and initialize called
\* directly, in any order, on the stack of a machine that is never built or
\* started.  api_result holds the last call and what it returned.
StackInit == Init /\ ctl = "stk"

\* a call of Stack::push
CallPush ==
    /\ hist.pushes < MaxPushes
    /\ \E item \in PresetValues :
        /\ stack' = StackPush(stack, item)
        /\ api_result' = [op |-> "push", name |-> "", status |-> "ok", val |-> item]
        /\ hist' = HistPush(hist, item)
    /\ UNCHANGED <<ctl, register_names, stdin, phase, make_result, start_result, calls,
                   pc, flag, the_inst_seq, the_labels, the_ops, register_table,
                   done_list, start_regs, ref, envs, env_call, rt, runs>>

\* a call of Stack::pop
CallPop ==
    /\ LET p == StackPop(stack)
       IN /\ stack' = p.s
          /\ api_result' = [op |-> "pop", name |-> "",
                            status |-> (IF p.ok THEN "ok" ELSE "Empty stack: POP"),
                            val |-> p.item]
          /\ hist' = IF p.ok THEN HistPop(hist) ELSE hist
    /\ UNCHANGED <<ctl, register_names, stdin, phase, make_result, start_result, calls,
                   pc, flag, the_inst_seq, the_labels, the_ops, register_table,
                   done_list, start_regs, ref, envs, env_call, rt, runs>>

\* a call of Stack::initialize
CallInitialize ==
    /\ stack' = StackInitialize(stack)
    /\ api_result' = [op |-> "initialize", name |-> "", status |-> "ok", val |-> VNil]
    /\ hist' = NoHist
    /\ UNCHANGED <<ctl, register_names, stdin, phase, make_result, start_result, calls,
                   pc, flag, the_inst_seq, the_labels, the_ops, register_table,
                   done_list, start_regs, ref, envs, env_call, rt, runs>>

StackNext ==
    \/ CallPush
    \/ CallPop
    \/ CallInitialize

StackSpec == StackInit /\ [][StackNext]_vars

\* ------------------------------------------------------------------ environment table
\* examples/ec_evaluator/supports/environment.rs.  An Environment is a map from
\* variable names to values; the table ENVIRONMENTS is a Vec of them, Pointer(p)
\* naming the one at index p (envs[p + 1] here).  Every failure is a panic!,
\* told apart here by its message; a panic ends the process.

\* Environment::lookup
EnvironmentLookup(e, args) ==
    IF args[1].v \in DOMAIN e THEN [status |-> "ok", val |-> e[args[1].v]]
    ELSE [status |-> "Unbound variable", val |-> VNil]

\* Environment::insert
EnvironmentInsert(e, args) ==
    [n \in DOMAIN e \cup {args[1].v} |-> IF n = args[1].v THEN args[2] ELSE e[n]]

\* Environment::update that binds a variable it does not find
EnvironmentUpdate_binds_unbound(e, args) ==
    [status |-> "ok",
     env |-> [n \in DOMAIN e \cup {args[1].v} |-> IF n = args[1].v THEN args[2] ELSE e[n]]]

\* Environment::update
EnvironmentUpdate(e, args) ==
    IF args[1].v \in DOMAIN e
    THEN [status |-> "ok", env |-> [e EXCEPT ![args[1].v] = args[2]]]
    ELSE [status |-> "Unbound variable: SET!", env |-> e]

\* Environment::extend_inner_map on a clone of e: HashMap::extend takes the
\* pairs in order, a later pair for the same name replacing an earlier one
EnvironmentExtendInnerMap(e, variables, values) ==
    LET names == {variables[i].v : i \in 1..Len(variables)}
        last(n) == CHOOSE i \in 1..Len(variables) :
                      /\ variables[i].v = n
                      /\ \A j \in 1..Len(variables) : variables[j].v = n => j <= i
    IN [n \in DOMAIN e \cup names |-> IF n \in names THEN values[last(n)] ELSE e[n]]

\* Environment::extend
EnvironmentExtend(e, args) ==
    IF args[1].k = "List" /\ args[2].k = "List"
    THEN IF Len(args[1].v) < Len(args[2].v)
         THEN [status |-> "Too many arguments supplied", env |-> e]
         ELSE IF Len(args[1].v) > Len(args[2].v)
         THEN [status |-> "Too few arguments supplied", env |-> e]
         ELSE [status |-> "ok", env |-> EnvironmentExtendInnerMap(e, args[1].v, args[2].v)]
    ELSE [status |-> "[EXTEND] Unknown arguments", env |-> e]

\* get_global_environment that pops nothing
get_global_environment_keeps_table(table) ==
    [status |-> "ok", val |-> VPtr(0), envs |-> table]

\* get_global_environment: pops until one environment is left
get_global_environment(table) ==
    [status |-> "ok", val |-> VPtr(0), envs |-> SubSeq(table, 1, 1)]

\* manipulate_env
manipulate_env(table, op, env, args) ==
    IF env.k # "Pointer" \/ env.v >= Len(table)
    THEN [status |-> "Unknown environment", val |-> VNil, envs |-> table]
    ELSE LET env_ptr == env.v
             this == table[env_ptr + 1]
         IN CASE op = "lookup" ->
                   LET r == EnvironmentLookup(this, args)
                   IN [status |-> r.status, val |-> r.val, envs |-> table]
              [] op = "define" ->
                   [status |-> "ok", val |-> VPtr(env_ptr),
                    envs |-> [table EXCEPT ![env_ptr + 1] = EnvironmentInsert(this, args)]]
              [] op = "update" ->
                   LET r == EnvironmentUpdate(this, args)
                   IN [status |-> r.status,
                       val |-> IF r.status = "ok" THEN VPtr(env_ptr) ELSE VNil,
                       envs |-> [table EXCEPT ![env_ptr + 1] = r.env]]
              [] op = "extend" ->
                   LET r == EnvironmentExtend(this, args)
                   IN IF r.status # "ok"
                      THEN [status |-> r.status, val |-> VNil, envs |-> table]
                      ELSE IF env_ptr = 0
                      THEN [status |-> "ok", val |-> VPtr(Len(table)),
                            envs |-> Append(table, r.env)]
                      ELSE IF env_ptr = Len(table) - 1
                      THEN [status |-> "ok", val |-> VPtr(env_ptr + 1),
                            envs |-> Append(table, r.env)]
                      ELSE [status |-> "ok", val |-> VPtr(env_ptr + 1),
                            envs |-> [table EXCEPT ![env_ptr + 2] = r.env]]
              [] OTHER -> [status |-> "[Environment] Unknown request", val |-> VNil,
                           envs |-> table]

\* the variable the calls look up, define and update (extend binds y too),
\* and the values they give it
EnvVars == {VSym("x")}
EnvVals == {VNum(0), VNum(1)}

\* the environment arguments the calls are given: every pointer into the
\* table and pointers past its end
EnvArgs == {VPtr(p) : p \in 0..MaxEnvs}

\* the argument lists extend is given: lists of equal length, of different
\* length, and a first argument that is no list
ExtendArgs ==
    { <<VList(<<>>), VList(<<>>)>>,
      <<VList(<<VSym("x")>>), VList(<<VNum(1)>>)>>,
      <<VList(<<VSym("x"), VSym("y")>>), VList(<<VNum(1), VNum(0)>>)>>,
      <<VList(<<VSym("x")>>), VList(<<>>)>>,
      <<VList(<<>>), VList(<<VNum(0)>>)>>,
      <<VSym("x"), VList(<<VNum(0)>>)>> }

\* the machine is not touched by a call on the environment table
MachineUntouched ==
    UNCHANGED <<ctl, register_names, stdin, phase, make_result, start_result,
                api_result, calls, pc, flag, stack, the_inst_seq, the_labels,
                the_ops, register_table, done_list, start_regs, ref, hist,
                runs>>

\* no call on the table has panicked
EnvAlive == env_call.status \in {"", "ok"}

\* a call of manipulate_env(op, env, args)
ManipulateEnv(op, env, args) ==
    LET r == manipulate_env(envs, op, env, args)
    IN /\ EnvAlive
       /\ envs' = r.envs
       /\ env_call' = [op |-> op, env |-> env, args |-> args,
                       status |-> r.status, val |-> r.val]
       /\ MachineUntouched
       /\ UNCHANGED rt

CallLookup == \E env \in EnvArgs, var \in EnvVars : ManipulateEnv("lookup", env, <<var>>)

CallDefine ==
    \E env \in EnvArgs, var \in EnvVars, val \in EnvVals :
        ManipulateEnv("define", env, <<var, val>>)

CallUpdate ==
    \E env \in EnvArgs, var \in EnvVars, val \in EnvVals :
        ManipulateEnv("update", env, <<var, val>>)

\* extend, as long as the table it leaves holds no more than MaxEnvs environments
CallExtend ==
    \E env \in EnvArgs, args \in ExtendArgs :
        /\ Len(manipulate_env(envs, "extend", env, args).envs) <= MaxEnvs
        /\ ManipulateEnv("extend", env, args)

\* a call of get_global_environment
CallGetGlobalEnvironment ==
    LET r == get_global_environment(envs)
    IN /\ EnvAlive
       /\ envs' = r.envs
       /\ env_call' = [op |-> "get-global-environment", env |-> VNil, args |-> <<>>,
                       status |-> r.status, val |-> r.val]
       /\ MachineUntouched
       /\ UNCHANGED rt

EnvInit == Init /\ ctl = "stk"

EnvNext ==
    \/ CallLookup
    \/ CallDefine
    \/ CallUpdate
    \/ CallExtend
    \/ CallGetGlobalEnvironment

EnvSpec == EnvInit /\ [][EnvNext]_vars

\* ------------------------------------------------------------------ texts
\* A text is the sequence of its tokens: the parentheses, the words (maximal
\* runs of symbol characters), the literals -?\d+ and -?\d+\.\d+ and the
\* quoted strings.  White space and comments, which sce eats, are left out.
Tok(t, s, n, f) == [t |-> t, s |-> s, n |-> n, f |-> f]
LP == Tok("(", "", 0, <<>>)
RP == Tok(")", "", 0, <<>>)
W(s) == Tok("word", s, 0, <<>>)
I(n) == Tok("int", "", n, <<>>)
F(n, f) == Tok("dec", "", n, f)
S(s) == Tok("str", s, 0, <<>>)

\* the result of a nom parser: Err, or Ok((rest, val))
Fail == [ok |-> FALSE, val |-> <<>>, rest |-> <<>>]
Parsed(val, rest) == [ok |-> TRUE, val |-> val, rest |-> rest]

\* nom alt of two parsers already applied to the same input
Alt(a, b) == IF a.ok THEN a ELSE b

\* the closures the parsers hand to nom map, by the variant they build
MapTo(variant, v) ==
    CASE variant = "RMLValue::Symbol" -> RSym(v)
      [] variant = "RMLValue::List" -> RList(v)
      [] variant = "Constant" -> Const(v)
      [] variant = "Reg" -> Reg(v)
      [] variant = "Label" -> Label(v)
      [] variant = "Branch" -> Branch(v)
      [] variant = "GotoLabel" -> GotoLabel(v)
      [] variant = "TestOp" -> TestOp(v)
      [] variant = "PerformOp" -> PerformOp(v)
      [] variant = "Save" -> Save(v)
      [] variant = "Restore" -> Restore(v)
      [] variant = "Symbol" -> Sym(v)
      [] variant = "vec!" -> <<v>>

\* nom map
Map(r, variant) == IF r.ok THEN Parsed(MapTo(variant, r.val), r.rest) ELSE Fail

\* sce(char(c)) or sce(tag(word))
Is(ts, tok) == ts # <<>> /\ Head(ts) = tok

\* str::parse::<f64> of the digits after the point: 42.0 and 42.00 are the
\* same number, the one with no fraction
RECURSIVE StripZeros(_)
StripZeros(f) ==
    IF f # <<>> /\ f[Len(f)] = 0 THEN StripZeros(SubSeq(f, 1, Len(f) - 1)) ELSE f

\* parser::valid_symbol
valid_symbol(ts) ==
    IF ts # <<>> /\ Head(ts).t = "word" THEN Parsed(Head(ts).s, Tail(ts)) ELSE Fail

\* parser::rml_symbol
rml_symbol(ts) == Map(valid_symbol(ts), "RMLValue::Symbol")

\* parser::rml_string
rml_string(ts) ==
    IF ts # <<>> /\ Head(ts).t = "str" THEN Parsed(RStr(Head(ts).s), Tail(ts)) ELSE Fail

\* parser::rml_number
rml_number(ts) ==
    IF ts # <<>> /\ Head(ts).t = "int" THEN Parsed(RNum(Head(ts).n), Tail(ts)) ELSE Fail

\* parser::rml_float
rml_float(ts) ==
    IF ts # <<>> /\ Head(ts).t = "dec"
    THEN Parsed(RFloat(Head(ts).n, StripZeros(Head(ts).f)), Tail(ts))
    ELSE Fail

\* sce(char(')')) after a parser that gave r
Close(r) == IF r.ok /\ Is(r.rest, RP) THEN Parsed(r.val, Tail(r.rest)) ELSE Fail

RECURSIVE rml_value(_)
RECURSIVE Many0Value(_, _)
\* many0 where the parser gave r at ts: one more round, or the end
More0Value(r, ts, acc) ==
    IF r.ok THEN Many0Value(r.rest, Append(acc, r.val)) ELSE Parsed(acc, ts)

\* many0(rml_value)
Many0Value(ts, acc) == More0Value(rml_value(ts), ts, acc)

\* parser::rml_list
rml_list(ts) ==
    IF ~Is(ts, LP) THEN Fail
    ELSE Map(Close(Many0Value(Tail(ts), <<>>)), "RMLValue::List")

\* parser::rml_value
rml_value(ts) ==
    Alt(rml_float(ts), Alt(rml_number(ts), Alt(rml_symbol(ts),
        Alt(rml_string(ts), rml_list(ts)))))

\* what follows sce(char('(')) and sce(tag(keyword)) in the text
Inside(ts) == SubSeq(ts, 3, Len(ts))

\* delimited(sce(char('(')), preceded(sce(tag(keyword)), inner), sce(char(')'))),
\* inner being what the inner parser gives on Inside(ts)
Tagged(ts, keyword, inner) ==
    IF Len(ts) >= 2 /\ ts[1] = LP /\ ts[2] = W(keyword) THEN Close(inner) ELSE Fail

\* parser::rml_const
rml_const(ts) == Map(Tagged(ts, "const", rml_value(Inside(ts))), "Constant")

\* parser::rml_reg
rml_reg(ts) == Map(Tagged(ts, "reg", valid_symbol(Inside(ts))), "Reg")

\* parser::rml_label
rml_label(ts) == Map(Tagged(ts, "label", valid_symbol(Inside(ts))), "Label")

\* parser::rml_branch
rml_branch(ts) == Map(Tagged(ts, "branch", rml_label(Inside(ts))), "Branch")

\* parser::rml_goto
rml_goto(ts) ==
    Map(Tagged(ts, "goto", Alt(rml_label(Inside(ts)), rml_reg(Inside(ts)))), "GotoLabel")

\* parser::operation_name
operation_name(ts) == Tagged(ts, "op", valid_symbol(Inside(ts)))

\* parser::operation_arg
operation_arg(ts) == Alt(rml_const(ts), rml_reg(ts))

RECURSIVE Many0Arg(_, _)
More0Arg(r, ts, acc) ==
    IF r.ok THEN Many0Arg(r.rest, Append(acc, r.val)) ELSE Parsed(acc, ts)

\* many0(operation_arg)
Many0Arg(ts, acc) == More0Arg(operation_arg(ts), ts, acc)

\* map(parser, |(name, args)| RMLNode::Operation(name.into(), args)) of operation
NamedOperation(name, args) == Parsed(Operation(name, args.val), args.rest)

\* pair(operation_name, many0(operation_arg)) once operation_name gave name
OperationArgs(name) ==
    IF name.ok THEN NamedOperation(name.val, Many0Arg(name.rest, <<>>)) ELSE Fail

\* parser::operation
operation(ts) == OperationArgs(operation_name(ts))

\* parser::rml_apply_operation
rml_apply_operation(ts) ==
    Alt(Map(Tagged(ts, "test", operation(Inside(ts))), "TestOp"),
        Map(Tagged(ts, "perform", operation(Inside(ts))), "PerformOp"))

\* parser::rml_save_and_restore
rml_save_and_restore(ts) ==
    Alt(Map(Tagged(ts, "save", valid_symbol(Inside(ts))), "Save"),
        Map(Tagged(ts, "restore", valid_symbol(Inside(ts))), "Restore"))

\* alt((rml_const, rml_reg, rml_label, operation)) of rml_assign
AssignValue(ts) ==
    Alt(rml_const(ts), Alt(rml_reg(ts), Alt(rml_label(ts), operation(ts))))

\* map(parser, |(reg, value)| RMLNode::Assignment(reg.into(), Arc::new(value)))
Assigned(reg, value) ==
    IF value.ok THEN Parsed(Assignment(reg, value.val), value.rest) ELSE Fail

\* pair(sce(valid_symbol), alt((rml_const, rml_reg, rml_label, operation))) of
\* rml_assign once sce(valid_symbol) gave reg
AssignPair(reg) == IF reg.ok THEN Assigned(reg.val, AssignValue(reg.rest)) ELSE Fail

\* parser::rml_assign
rml_assign(ts) == Tagged(ts, "assign", AssignPair(valid_symbol(Inside(ts))))

\* parser::rml_instruction
rml_instruction(ts) ==
    Alt(rml_const(ts), Alt(rml_label(ts), Alt(rml_reg(ts), Alt(rml_branch(ts),
        Alt(rml_goto(ts), Alt(rml_save_and_restore(ts), Alt(rml_apply_operation(ts),
            Alt(rml_assign(ts), Map(valid_symbol(ts), "Symbol")))))))))

RECURSIVE Many0Instruction(_, _)
More0Instruction(r, ts, acc) ==
    IF r.ok THEN Many0Instruction(r.rest, Append(acc, r.val)) ELSE Parsed(acc, ts)

\* many0(rml_instruction)
Many0Instruction(ts, acc) == More0Instruction(rml_instruction(ts), ts, acc)

\* parser::rml_instructions
rml_instructions(ts) ==
    IF ~Is(ts, LP) THEN Fail ELSE Close(Many0Instruction(Tail(ts), <<>>))

\* nom all_consuming, and the Result parse makes of it
AllConsuming(r) ==
    IF r.ok /\ r.rest = <<>> THEN [ok |-> TRUE, nodes |-> r.val]
    ELSE [ok |-> FALSE, nodes |-> <<>>]

\* parser::parse of a text given by its tokens
parse_tokens(ts) ==
    AllConsuming(Alt(rml_instructions(ts), Map(rml_instruction(ts), "vec!")))

RECURSIVE DisplayRMLValue(_)
\* v.iter().map(|s| s.to_string()).collect::<Vec<String>>().join(" ")
RECURSIVE JoinValues(_, _)
JoinValues(v, i) ==
    IF i > Len(v) THEN <<>> ELSE DisplayRMLValue(v[i]) \o JoinValues(v, i + 1)

\* impl Display for RMLValue: `{}` of an f64 writes a number without fraction
\* as its integer digits
DisplayRMLValue(r) ==
    CASE r.k = "Float" -> IF r.v[2] = <<>> THEN <<I(r.v[1])>> ELSE <<F(r.v[1], r.v[2])>>
      [] r.k = "Num" -> <<I(r.v)>>
      [] r.k = "List" -> <<LP>> \o JoinValues(r.v, 1) \o <<RP>>
      [] r.k = "Str" -> <<S(r.v)>>
      [] r.k = "Symbol" -> <<W(r.v)>>

RECURSIVE DisplayRMLNode(_)
\* args.iter().map(|s| s.to_string()).collect::<Vec<String>>().join(" ")
RECURSIVE JoinNodes(_, _)
JoinNodes(nodes, i) ==
    IF i > Len(nodes) THEN <<>> ELSE DisplayRMLNode(nodes[i]) \o JoinNodes(nodes, i + 1)

\* impl Display for RMLNode
DisplayRMLNode(n) ==
    CASE n.t = "Assignment" -> <<LP, W("assign"), W(n.reg)>> \o DisplayRMLNode(n.rhs) \o <<RP>>
      [] n.t = "Branch" -> <<LP, W("branch")>> \o DisplayRMLNode(n.target) \o <<RP>>
      [] n.t = "Constant" -> <<LP, W("const")>> \o DisplayRMLValue(n.val) \o <<RP>>
      [] n.t = "GotoLabel" -> <<LP, W("goto")>> \o DisplayRMLNode(n.target) \o <<RP>>
      [] n.t = "Label" -> <<LP, W("label"), W(n.name), RP>>
      [] n.t = "List" -> <<LP>> \o JoinValues(n.val, 1) \o <<RP>>
      [] n.t = "Operation" -> <<LP, W("op"), W(n.name), RP>> \o JoinNodes(n.args, 1)
      [] n.t = "PerformOp" -> <<LP, W("perform")>> \o DisplayRMLNode(n.op) \o <<RP>>
      [] n.t = "Reg" -> <<LP, W("reg"), W(n.name), RP>>
      [] n.t = "Restore" -> <<LP, W("restore"), W(n.reg), RP>>
      [] n.t = "Save" -> <<LP, W("save"), W(n.reg), RP>>
      [] n.t = "TestOp" -> <<LP, W("test")>> \o DisplayRMLNode(n.op) \o <<RP>>
      [] n.t = "Symbol" -> <<W(n.name)>>

\* the nodes of an AST written back as one text: their Display forms in a
\* pair of parentheses, the form rml_instructions reads
WriteBack(nodes) == <<LP>> \o JoinNodes(nodes, 1) \o <<RP>>

\* ------------------------------------------------------------------ round trip
\* the literals of the texts: integers, floats with and without a fraction, a
\* string, a symbol, the empty list and a nested list
Literals ==
    { <<I(42)>>, <<I(-1)>>, <<F(42, <<0>>)>>, <<F(1, <<5>>)>>, <<S("s")>>, <<W("a")>>,
      <<LP, RP>>, <<LP, W("a"), LP, I(1), RP, RP>> }

\* one instruction of every form, and every literal in each place that takes one
InstructionTexts ==
    UNION { { <<LP, W("const")>> \o l \o <<RP>>,
              <<LP, W("assign"), W("a"), LP, W("const")>> \o l \o <<RP, RP>>,
              <<LP, W("perform"), LP, W("op"), W("f"), RP, LP, W("reg"), W("a"), RP,
                LP, W("const")>> \o l \o <<RP, RP>>,
              <<LP, W("test"), LP, W("op"), W("f"), RP, LP, W("const")>> \o l \o <<RP, RP>> }
            : l \in Literals }
    \cup { <<LP, W("assign"), W("a"), LP, W("reg"), W("b"), RP, RP>>,
           <<LP, W("assign"), W("a"), LP, W("label"), W("l"), RP, RP>>,
           <<LP, W("assign"), W("a"), LP, W("op"), W("f"), RP, LP, W("reg"), W("a"), RP, RP>>,
           <<LP, W("perform"), LP, W("op"), W("f"), RP, RP>>,
           <<LP, W("branch"), LP, W("label"), W("l"), RP, RP>>,
           <<LP, W("goto"), LP, W("label"), W("l"), RP, RP>>,
           <<LP, W("goto"), LP, W("reg"), W("a"), RP, RP>>,
           <<LP, W("save"), W("a"), RP>>,
           <<LP, W("restore"), W("a"), RP>>,
           <<LP, W("label"), W("l"), RP>>,
           <<LP, W("reg"), W("a"), RP>>,
           <<W("l")>> }

\* the instructions the longer texts are made of
ShortTexts ==
    { <<W("l")>>,
      <<LP, W("save"), W("a"), RP>>,
      <<LP, W("goto"), LP, W("reg"), W("a"), RP, RP>>,
      <<LP, W("assign"), W("a"), LP, W("const"), I(42), RP, RP>>,
      <<LP, W("test"), LP, W("op"), W("f"), RP, LP, W("const"), F(1, <<5>>), RP, RP>> }

RECURSIVE Concat(_, _)
Concat(texts, i) == IF i > Len(texts) THEN <<>> ELSE texts[i] \o Concat(texts, i + 1)

\* texts parse rejects: an open parenthesis alone, a closing one, a number
\* where an instruction is expected, a const without a value
RejectedTexts ==
    { <<LP>>, <<RP>>, <<I(1)>>, <<LP, I(1), RP>>, <<LP, LP, W("const"), RP, RP>> }

\* the texts handed to parse: a single instruction, an instruction in the
\* parentheses of a controller, controllers of up to MaxInsts instructions
Texts ==
    InstructionTexts
    \cup { <<LP>> \o t \o <<RP>> : t \in InstructionTexts }
    \cup { <<LP>> \o Concat(seq, 1) \o <<RP>> :
              seq \in UNION { [1..k -> ShortTexts] : k \in 0..MaxInsts } }
    \cup RejectedTexts

\* the variables the round trip leaves alone
RoundTripOnly == MachineUntouched /\ UNCHANGED <<envs, env_call>>

\* parse(text)
ParseText ==
    /\ rt.phase = "new"
    /\ \E text \in Texts :
          LET r == parse_tokens(text)
          IN rt' = [rt EXCEPT !.text = text, !.first = r.nodes,
                              !.phase = IF r.ok THEN "parsed" ELSE "rejected"]
    /\ RoundTripOnly

\* the nodes written back as text
WriteNodes ==
    /\ rt.phase = "parsed"
    /\ rt' = [rt EXCEPT !.shown = WriteBack(rt.first), !.phase = "written"]
    /\ RoundTripOnly

\* parse of the text written back
ParseAgain ==
    /\ rt.phase = "written"
    /\ rt' = [rt EXCEPT !.again = parse_tokens(rt.shown), !.phase = "reparsed"]
    /\ RoundTripOnly

RoundTripInit == Init /\ ctl = "stk"

RoundTripNext == ParseText \/ WriteNodes \/ ParseAgain

RoundTripSpec == RoundTripInit /\ [][RoundTripNext]_vars

\* ------------------------------------------------------------------ properties
Stopped == phase \in {"halted", "panic"} /\ start_result # "none"

\* the instruction the machine is about to execute, "end" past the last one
Visiting == IF Fetching THEN Inst ELSE Sym("end")

\* the instruction the reference machine is about to execute
RefVisiting ==
    IF ref.pc < Len(WholeProgram(RefNodes)) THEN WholeProgram(RefNodes)[ref.pc + 1]
    ELSE Sym("end")

\* C1: in every run of start() the machine, with its jump rule by label
\* suffixes, is at the same instruction as the reference machine that jumps to
\* absolute indices, holds the same registers, flag, stack and external
\* effects, and stops when it stops with the same result.
C1_JumpRuleMatchesReference ==
    (make_result = "ok" /\ ref.phase # "new") =>
        /\ ref.phase = phase
        /\ ref.d = D
        /\ ref.result = start_result
        /\ (phase = "running" => Visiting = RefVisiting)

\* the instructions of `nodes` from just after the declaration of l to the end
SuffixAfter(nodes, l) ==
    SubSeq(WholeProgram(nodes), LabelIndex(nodes, l) + 1, Len(WholeProgram(nodes)))

IsSuffix(s, t) ==
    Len(s) <= Len(t) /\ s = SubSeq(t, Len(t) - Len(s) + 1, Len(t))

\* C2: in the result of assemble every labels[L] is a suffix of instructions,
\* namely the instructions from just after L's declaration to the end, and a
\* label declared later has no longer entry than one declared earlier.
C2_LabelsAreSuffixes ==
    phase = "ready" =>
        LET nodes == Controllers[ctl].nodes
            decl(l) == CHOOSE i \in 1..Len(nodes) :
                            nodes[i].t = "Symbol" /\ nodes[i].name = l
        IN /\ \A l \in DOMAIN the_labels :
                /\ IsSuffix(the_labels[l], the_inst_seq)
                /\ the_labels[l] = SuffixAfter(nodes, l)
           /\ \A l1, l2 \in DOMAIN the_labels :
                decl(l1) < decl(l2) => Len(the_labels[l2]) <= Len(the_labels[l1])

\* C3: the instruction list assemble returns is exactly the parsed nodes that
\* are not label declarations, in source order.
C3_InstructionsAreAllNonLabels ==
    phase = "ready" => the_inst_seq = WholeProgram(Controllers[ctl].nodes)

\* the greatest common divisor of two naturals, gcd(0, 0) = 0
Divides(d, n) == n % d = 0

GCD(x, y) ==
    IF x = 0 /\ y = 0 THEN 0
    ELSE CHOOSE d \in 1..(x + y) :
            /\ Divides(d, x) /\ Divides(d, y)
            /\ \A e \in 1..(x + y) : (Divides(e, x) /\ Divides(e, y)) => e <= d

\* C4: the GCD controller started with a and b preset to non-negative integers
\* ends with Done and a = gcd(a, b); from a = 1023, b = 27 it ends with a = 3.
C4_GcdComputesGcd ==
    (ctl = "gcd" /\ make_result = "ok" /\ Stopped
        /\ start_regs["a"].k = "Num" /\ start_regs["b"].k = "Num") =>
        /\ start_result = "Done"
        /\ register_table["a"] = VNum(GCD(start_regs["a"].v, start_regs["b"].v))

RECURSIVE Factorial(_)
Factorial(n) == IF n <= 1 THEN 1 ELSE n * Factorial(n - 1)

\* C5: the recursive factorial controller run with input n >= 1 ends with
\* Done, val = n!, and 2*(n-1) cumulative pushes and maximum depth.
C5_FactorialResultAndStack ==
    (ctl = "fact" /\ make_result = "ok" /\ Stopped) =>
        /\ start_result = "Done"
        /\ register_table["val"] = VNum(Factorial(stdin))
        /\ stack.num_pushes = 2 * (stdin - 1)
        /\ stack.max_depth = 2 * (stdin - 1)

\* C6: assembling (controller A (goto (label B)) B (perform (op done))) maps A
\* to [goto B, perform done] and B to [perform done]; one run executes done
\* exactly once and returns Done.
C6_AbLabelsAndRun ==
    (ctl = "ab" /\ make_result = "ok") =>
        /\ the_labels["A"] = <<GotoLabel(Label("B")), PerformOp(Operation("done", <<>>))>>
        /\ the_labels["B"] = <<PerformOp(Operation("done", <<>>))>>
        /\ (Stopped => start_result = "Done" /\ done_list = <<1>>)

\* C7: on a machine built by make_machine, start() returns Ok("Done") or an
\* Err value; the execution loop never aborts in another way.
C7_StartReturnsDoneOrErr ==
    make_result = "ok" => phase # "panic"

\* C8: make_machine on a controller text that fails to parse or to assemble
\* returns UnableAssemble, builds no machine and does not abort.
C8_BadTextGivesUnableAssemble ==
    (make_result # "none"
        /\ (~parse(Controllers[ctl]).ok \/ assemble(Controllers[ctl]).status = "err")) =>
        make_result = "UnableAssemble" /\ phase = "failed"

\* C9: allocate_register with a name already allocated on the machine fails
\* with AllocateFailure, so make_machine with a name listed twice fails.
C9_AllocateExistingFails ==
    [][ /\ (api_result'.op = "allocate" /\ calls' = calls + 1
               /\ api_result'.name \in DOMAIN register_table)
            => api_result'.status = "AllocateFailure"
        /\ (make_result = "none" /\ make_result' # "none"
               /\ \E i, j \in 1..Len(register_names') :
                        i # j /\ register_names'[i] = register_names'[j])
            => make_result' = "AllocateFailure" ]_vars

\* C10: on every machine, also a fresh one, get_register and set_register on
\* pc and flag do not fail with LookupFailure, and they read and write the pc
\* and flag of the execution loop.
C10_PcAndFlagAlwaysPresent ==
    (phase \in {"new", "ready"} /\ api_result.op \in {"get", "set"}
        /\ api_result.name \in {"pc", "flag"}) =>
        /\ api_result.status # "LookupFailure"
        /\ api_result.val = (IF api_result.name = "pc" THEN pc ELSE flag)

\* C11: a Branch executed while flag holds no Boolean (the *unassigned* it
\* starts with, say) makes start() return TypeError and stops the run.
C11_BranchOnNonBooleanFlagIsTypeError ==
    [][(Fetching /\ Inst.t = "Branch" /\ flag.k # "Boolean")
          => (start_result' = "TypeError" /\ phase' = "halted")]_vars

\* C12: a TestOp whose operation returns a value that is no Boolean makes
\* start() return TypeError, leaves flag with what it held and does not advance
\* pc; when the operation returns a Boolean, flag holds exactly that Boolean and
\* pc has advanced by one.
C12_TestSetsFlagOrTypeError ==
    [][(Fetching /\ Inst.t = "TestOp")
          => LET r == perform_operation(D, Inst.op.name, Inst.op.args)
             IN r.status = "ok"
                  => IF r.val.k = "Boolean"
                     THEN /\ flag' = r.val
                          /\ pc' = VNum(pc.v + 1)
                          /\ phase' = "running"
                     ELSE /\ start_result' = "TypeError"
                          /\ phase' = "halted"
                          /\ flag' = flag
                          /\ pc' = pc]_vars

\* the test on (op *) of the controller br returned a number: the run has
\* stopped at that test with TypeError, flag still false from the test before
C12_Witness ==
    /\ ctl = "br"
    /\ phase = "halted"
    /\ start_result = "TypeError"
    /\ pc = VNum(3)
    /\ Inst.t = "TestOp"
    /\ flag = VBool(FALSE)

\* C13: Restore(r) executed on an empty stack makes start() return StackError
\* and leaves register r, the stack and its counters as they were; on a
\* non-empty stack, r being a register of the machine, it removes the top
\* value, stores it in r and advances pc by one.
C13_RestoreEmptyIsStackError ==
    [][(Fetching /\ Inst.t = "Restore")
          => IF stack.stack = <<>>
             THEN /\ start_result' = "StackError"
                  /\ phase' = "halted"
                  /\ register_table' = register_table
                  /\ stack' = stack
                  /\ pc' = pc
             ELSE Inst.reg \in DOMAIN register_table
                    => /\ stack'.stack = SubSeq(stack.stack, 1, Len(stack.stack) - 1)
                       /\ register_table' =
                            [register_table EXCEPT ![Inst.reg] = stack.stack[Len(stack.stack)]]
                       /\ pc' = VNum(pc.v + 1)
                       /\ phase' = "running"]_vars

\* the last restore of the controller pop found the stack empty, after three
\* pushes and three pops
C13_Witness ==
    /\ ctl = "pop"
    /\ phase = "halted"
    /\ start_result = "StackError"
    /\ pc = VNum(6)
    /\ stack.stack = <<>>
    /\ stack.num_pushes = 3

\* the label name a Branch or GotoLabel target stands for: the name of a
\* direct label, the symbol held by the register of a register target
TargetName(target) ==
    IF target.t = "Label" THEN target.name ELSE register_table[target.name].v

\* a Branch or GotoLabel is about to be executed whose target, a direct label
\* or a register holding a label, names no key of the label table
UnknownTarget ==
    /\ Fetching
    /\ Inst.t \in {"Branch", "GotoLabel"}
    /\ \/ Inst.target.t = "Label"
       \/ /\ Inst.target.t = "Reg"
          /\ Inst.target.name \in DOMAIN register_table
          /\ register_table[Inst.target.name].k = "Symbol"
    /\ TargetName(Inst.target) \notin DOMAIN the_labels

\* C14: a Branch or GotoLabel whose target name, written as a label or read
\* from a register, is no key of the label table makes start() return
\* UnknownLabel and changes neither pc nor the current instruction list; a
\* Branch does so whatever flag holds.
C14_UnknownLabelStopsInPlace ==
    [][UnknownTarget
          => /\ start_result' = "UnknownLabel"
             /\ phase' = "halted"
             /\ pc' = pc
             /\ the_inst_seq' = the_inst_seq]_vars

\* the branch to the undeclared label `nowhere` of the controller unk was
\* executed with flag false and stopped the run where it stood
C14_Witness ==
    /\ ctl = "unk"
    /\ phase = "halted"
    /\ start_result = "UnknownLabel"
    /\ flag = VBool(FALSE)
    /\ pc = VNum(5)
    /\ Inst.t = "Branch"

\* the same label name is declared twice in the node list, wherever
DeclaredTwice(nodes) ==
    \E i, j \in 1..Len(nodes) :
        /\ i < j
        /\ nodes[i].t = "Symbol"
        /\ nodes[j].t = "Symbol"
        /\ nodes[i].name = nodes[j].name

\* the controller texts of the model that declare a label name twice
TextsDeclaringTwice == {c \in DOMAIN Controllers : DeclaredTwice(Controllers[c].nodes)}

\* C15: assembling a text that parses fails with the duplicate-label error
\* (make_machine returns UnableAssemble) whenever the same label name is
\* declared twice anywhere in it, the leading `controller` symbol and labels
\* declared before any instruction included, and succeeds when all label names
\* are distinct.
C15_DuplicateLabelIffAssembleFails ==
    (make_result # "none" /\ Controllers[ctl].parses)
        => /\ ctl \in TextsDeclaringTwice => make_result = "UnableAssemble"
           /\ ctl \notin TextsDeclaringTwice => make_result = "ok"

\* make_machine has refused the text that declares `controller` again at its end
C15_Witness == ctl = "dupc" /\ phase = "failed" /\ make_result = "UnableAssemble"

\* the greater of two numbers
Greater(a, b) == IF a > b THEN a ELSE b

\* C16: Stack::push succeeds on every stack state; it increases the push
\* counter by one and the current depth by one, and leaves the maximum depth
\* at the greater of its old value and the new current depth.
C16_PushUpdatesCounters ==
    [][api_result'.op = "push"
          => /\ api_result'.status = "ok"
             /\ stack'.stack = Append(stack.stack, api_result'.val)
             /\ stack'.num_pushes = stack.num_pushes + 1
             /\ stack'.curr_depth = stack.curr_depth + 1
             /\ stack'.max_depth = Greater(stack.max_depth, stack.curr_depth + 1)]_vars

\* a push was made on a stack that had been deeper before: the maximum depth
\* stays above the current depth
C16_Witness ==
    /\ api_result.op = "push"
    /\ stack.curr_depth = 1
    /\ stack.max_depth = 2
    /\ stack.num_pushes = 3

\* the counters of the stack say what was done to it since it was created or
\* last initialized
CountersTellHistory ==
    /\ stack.max_depth = hist.peak
    /\ stack.num_pushes = hist.pushes

\* C17: after any sequence of pushes and pops since the stack was created or
\* last initialized, its maximum-depth counter equals the greatest current
\* depth reached in that sequence and its push counter the number of pushes
\* made; a successful pop decreases the current depth by one and changes
\* neither of these two counters.
C17_CountersFollowPushesAndPops ==
    /\ CountersTellHistory
    /\ [][/\ CountersTellHistory'
          /\ (api_result'.op = "pop" /\ api_result'.status = "ok")
                => /\ stack'.curr_depth = stack.curr_depth - 1
                   /\ stack'.max_depth = stack.max_depth
                   /\ stack'.num_pushes = stack.num_pushes]_vars

\* a pop succeeded on a stack of depth two that had had three pushes
C17_Witness ==
    /\ api_result.op = "pop"
    /\ api_result.status = "ok"
    /\ hist.pushes = 3
    /\ hist.pops = 2
    /\ hist.peak = 2
    /\ stack.curr_depth = 1

\* the controller pop has executed (save a) (save b) (restore a) (restore b);
\* nothing it executes afterwards changes a or b
SavedAndRestoredTwo ==
    /\ ctl = "pop"
    /\ make_result = "ok"
    /\ phase \in {"running", "halted"}
    /\ pc.v >= 4

\* C18: the stack is last-in first-out: a successful pop returns the value of
\* the latest push not yet popped, so that Save(r1), Save(r2), Restore(x),
\* Restore(y) puts the saved content of r2 in x and that of r1 in y.
C18_StackIsLifo ==
    /\ [][(Fetching /\ Inst.t = "Restore" /\ hist.pending # <<>>
             /\ Inst.reg \in DOMAIN register_table)
            => register_table'[Inst.reg] = hist.pending[Len(hist.pending)]]_vars
    /\ [](SavedAndRestoredTwo
            => /\ register_table["a"] = start_regs["b"]
               /\ register_table["b"] = start_regs["a"])

\* a was 0 and b was 1 when the controller pop was started; after its two
\* saves and two restores a is 1 and b is 0
C18_Witness ==
    /\ SavedAndRestoredTwo
    /\ pc = VNum(4)
    /\ start_regs["a"] = VNum(0)
    /\ start_regs["b"] = VNum(1)
    /\ register_table["a"] = VNum(1)
    /\ register_table["b"] = VNum(0)

\* the instruction about to be executed calls the operation op_name
Calling(op_name) == Fetching /\ OperationOf(Inst).name = op_name

\* register_table with Symbol("Done") stored by an Assignment, unchanged by
\* any other instruction
WithDoneAssigned ==
    IF Inst.t = "Assignment"
    THEN [register_table EXCEPT ![Inst.reg] = VSym("Done")]
    ELSE register_table

\* C19: initialize-stack called from a controller leaves the stack empty with
\* its three counters at zero, whatever pushes and pops came before;
\* initialize-stack and print-stack-statistics both return Symbol("Done"), and
\* print-stack-statistics changes nothing of the machine's state.
C19_InitializeClearsAndBothReturnDone ==
    [][/\ Calling("initialize-stack")
            => /\ stack'.stack = <<>>
               /\ stack'.num_pushes = 0
               /\ stack'.max_depth = 0
               /\ stack'.curr_depth = 0
               /\ register_table' = WithDoneAssigned
               /\ phase' = "running"
       /\ Calling("print-stack-statistics")
            => /\ stack' = stack
               /\ flag' = flag
               /\ done_list' = done_list
               /\ the_inst_seq' = the_inst_seq
               /\ register_table' = WithDoneAssigned
               /\ phase' = "running"]_vars

\* (assign a (op initialize-stack)) of the controller init was executed on a
\* stack that held two items after three pushes
C19_Witness ==
    /\ ctl = "init"
    /\ phase = "running"
    /\ pc = VNum(7)
    /\ stack = NewStack
    /\ register_table["a"] = VSym("Done")

\* pc stands at the end of the current instruction list
AtEnd == phase = "running" /\ pc.k = "Num" /\ pc.v = Len(the_inst_seq)

\* C20: when pc reaches the end of the current instruction list start()
\* returns Done, whether or not the saves and restores executed were balanced,
\* and the current depth of the stack is then the number of Save instructions
\* executed minus the number of Restore instructions executed since the last
\* initialize-stack, or since the machine was made.
C20_DoneAtEndWithDepthOfSavesLessRestores ==
    /\ [][AtEnd => (start_result' = "Done" /\ phase' = "halted")]_vars
    /\ []((Stopped /\ start_result = "Done")
            => stack.curr_depth = hist.pushes - hist.pops)

\* the controller init has returned Done with one Save and no Restore executed
\* since its initialize-stack, four Saves and one Restore in all
C20_Witness ==
    /\ ctl = "init"
    /\ Stopped
    /\ start_result = "Done"
    /\ hist.pushes = 1
    /\ hist.pops = 0
    /\ stack.curr_depth = 1

\* the arguments of an operation as they stand now: what each register named
\* holds at this moment, each constant's value, in the order they are written
CurrentArgs(args) ==
    [i \in 1..Len(args) |->
        IF args[i].t = "Reg" THEN register_table[args[i].name]
        ELSE rmlvalue_to_value(args[i].val)]

\* an instruction with an operation is about to be executed whose arguments
\* are registers of the machine and constants
OperationReady ==
    /\ Fetching
    /\ OperationOf(Inst).name # ""
    /\ \A i \in 1..Len(OperationOf(Inst).args) :
          \/ OperationOf(Inst).args[i].t = "Constant"
          \/ /\ OperationOf(Inst).args[i].t = "Reg"
             /\ OperationOf(Inst).args[i].name \in DOMAIN register_table

\* C21: each time an instruction with an operation is executed, every (reg X)
\* argument is the content X holds at that moment, in the order the arguments
\* are written: the instruction does what the operation returns for these
\* values, also when it is executed again after X was assigned anew.
C21_ArgumentsAreCurrentContents ==
    [][OperationReady
          => LET r == call_operation(D, OperationOf(Inst).name,
                                     CurrentArgs(OperationOf(Inst).args))
             IN /\ r.status # "ok" => start_result' = r.status
                /\ (r.status = "ok" /\ Inst.t = "Assignment"
                        /\ Inst.reg \in DOMAIN register_table)
                     => register_table'[Inst.reg] = r.val
                /\ (r.status = "ok" /\ Inst.t = "TestOp" /\ r.val.k = "Boolean")
                     => flag' = r.val]_vars

\* the controller loop has executed its test on a a third time, after a was
\* assigned 1 and then 0: the test has seen the 0
C21_Witness ==
    /\ ctl = "loop"
    /\ make_result = "ok"
    /\ phase = "running"
    /\ register_table["a"] = VNum(0)
    /\ flag = VBool(TRUE)
    /\ Inst.t = "Branch"

\* an instruction is about to call a procedure of the procedure table: the
\* name is not one of the two the machine implements itself
ProcedureReady ==
    /\ OperationReady
    /\ OperationOf(Inst).name \notin {"initialize-stack", "print-stack-statistics"}
    /\ OperationOf(Inst).name \in DOMAIN the_ops

\* C22: Procedure::execute returns ArgsTooFew, without invoking the function
\* it holds, exactly when it is given fewer arguments than the procedure's
\* minimum arity; given that many or more it invokes the function once on the
\* arguments in the order given and returns its result.
C22_ArgsTooFewIffBelowArity ==
    [][ProcedureReady
          => LET p == the_ops[OperationOf(Inst).name]
                 vals == CurrentArgs(OperationOf(Inst).args)
                 r == ApplyFunction(p.fn, vals, stdin)
             IN IF Len(vals) < p.min_arg_num
                THEN /\ start_result' = "ArgsTooFew"
                     /\ done_list' = done_list
                     /\ register_table' = register_table
                     /\ flag' = flag
                ELSE /\ start_result' = (IF r.status = "ok" THEN start_result
                                         ELSE r.status)
                        \/ (Inst.t = "TestOp" /\ r.status = "ok"
                              /\ r.val.k # "Boolean")
                     /\ done_list' = (IF r.status = "ok" /\ p.fn = "done"
                                      THEN Append(done_list, 1) ELSE done_list)
                     /\ (r.status = "ok" /\ Inst.t = "Assignment"
                           /\ Inst.reg \in DOMAIN register_table)
                          => register_table'[Inst.reg] = r.val
                     /\ (r.status = "ok" /\ Inst.t = "TestOp"
                           /\ r.val.k = "Boolean")
                          => flag' = r.val]_vars

\* the controller args has called done with one argument more than it asks
\* for, = with three and - with two, and was refused mark without argument:
\* the list done appends to holds the one entry of the first call
C22_Witness ==
    /\ ctl = "args"
    /\ phase = "halted"
    /\ start_result = "ArgsTooFew"
    /\ pc = VNum(3)
    /\ done_list = <<1>>
    /\ register_table["a"] = VNum(4)

\* the call just made was a successful manipulate_env(op, ...)
Succeeded(op) == env_call'.op = op /\ env_call'.status = "ok"

\* the environment a pointer value names in a table
EnvAt(table, ptr) == table[ptr.v + 1]

\* environment e is environment base overridden by variables[i] -> values[i]
Overrides(e, base, variables, values) ==
    /\ DOMAIN e = DOMAIN base \cup {variables[i].v : i \in 1..Len(variables)}
    /\ \A i \in 1..Len(variables) : e[variables[i].v] = values[i]
    /\ \A n \in DOMAIN base :
          (\A i \in 1..Len(variables) : variables[i].v # n) => e[n] = base[n]

\* C23: manipulate_env extend on env_ptr with lists vars and vals of equal
\* length returns a Pointer to an environment that was not in the table before
\* the call, whose bindings are those of env_ptr's environment overridden by
\* vars[i] -> vals[i]; env_ptr's own environment has the same bindings after
\* the call as before.
C23_ExtendReturnsFreshEnvironment ==
    [][Succeeded("extend")
          => /\ env_call'.val.k = "Pointer"
             /\ env_call'.val.v >= Len(envs)
             /\ env_call'.val.v < Len(envs')
             /\ Overrides(EnvAt(envs', env_call'.val), EnvAt(envs, env_call'.env),
                          env_call'.args[1].v, env_call'.args[2].v)
             /\ EnvAt(envs', env_call'.env) = EnvAt(envs, env_call'.env)]_vars

\* the call just made was a manipulate_env call, whatever its result
Manipulated == env_call'.op \in {"lookup", "define", "update", "extend"}

\* C24: between two calls of get-global-environment the number of
\* environments in the table never decreases under lookup, define, update and
\* extend, and every successful extend increases it by exactly one, whichever
\* environment is extended: the first, the last or one in the middle.
C24_TableGrowsByOnePerExtend ==
    [][/\ Manipulated => Len(envs') >= Len(envs)
       /\ Succeeded("extend") => Len(envs') = Len(envs) + 1]_vars

\* the environments of the table other than the one the call was made on
OthersUnchanged ==
    /\ Len(envs') = Len(envs)
    /\ \A i \in 1..Len(envs) : i # env_call'.env.v + 1 => envs'[i] = envs[i]

\* the call just made was on an environment of the table
OnKnownEnvironment == env_call'.env.k = "Pointer" /\ env_call'.env.v < Len(envs)

\* the variable named by the first argument of the call just made
CalledName == env_call'.args[1].v

\* C25: update of a variable that is not bound in the addressed environment
\* fails with the unbound-set failure and leaves every environment unchanged;
\* update of a bound variable replaces that binding and nothing else in that
\* environment; define inserts the binding or shadows the old one, so that a
\* lookup of the variable in the same environment returns the defined value.
C25_UpdateNeedsBindingDefineShadows ==
    [][/\ (env_call'.op = "update" /\ OnKnownEnvironment
              /\ CalledName \notin DOMAIN EnvAt(envs, env_call'.env))
          => /\ env_call'.status = "Unbound variable: SET!"
             /\ envs' = envs
       /\ (env_call'.op = "update" /\ OnKnownEnvironment
              /\ CalledName \in DOMAIN EnvAt(envs, env_call'.env))
          => /\ env_call'.status = "ok"
             /\ OthersUnchanged
             /\ EnvAt(envs', env_call'.env)
                  = [EnvAt(envs, env_call'.env) EXCEPT ![CalledName] = env_call'.args[2]]
       /\ (env_call'.op = "define" /\ OnKnownEnvironment)
          => /\ env_call'.status = "ok"
             /\ OthersUnchanged
             /\ manipulate_env(envs', "lookup", env_call'.env, <<env_call'.args[1]>>).status = "ok"
             /\ manipulate_env(envs', "lookup", env_call'.env, <<env_call'.args[1]>>).val
                  = env_call'.args[2]]_vars

\* an update of a bound variable and a define have both been made
C25_Witness ==
    /\ env_call.op = "update"
    /\ env_call.status = "ok"
    /\ env_call.env = VPtr(1)
    /\ env_call.args = <<VSym("x"), VNum(1)>>
    /\ Len(envs) >= 2
    /\ "x" \in DOMAIN envs[1]
    /\ envs[1]["x"] = VNum(0)
    /\ envs[2]["x"] = VNum(1)

\* every manipulate_env call on the pointer ptr is rejected by the table
Rejected(table, ptr) ==
    /\ \A var \in EnvVars :
          manipulate_env(table, "lookup", ptr, <<var>>).status = "Unknown environment"
    /\ \A var \in EnvVars, val \in EnvVals :
          /\ manipulate_env(table, "define", ptr, <<var, val>>).status = "Unknown environment"
          /\ manipulate_env(table, "update", ptr, <<var, val>>).status = "Unknown environment"
    /\ \A args \in ExtendArgs :
          manipulate_env(table, "extend", ptr, args).status = "Unknown environment"

\* C26: get-global-environment, called after any sequence of environment
\* operations, leaves exactly one environment in the table, the global one at
\* index 0, and returns Pointer(0); in the table it leaves, every pointer
\* greater than 0 that was handed out before is rejected as an unknown
\* environment.
C26_GetGlobalEnvironmentResetsTable ==
    [][env_call'.op = "get-global-environment"
          => /\ env_call'.status = "ok"
             /\ env_call'.val = VPtr(0)
             /\ envs' = <<envs[1]>>
             /\ \A p \in 1..MaxEnvs : Rejected(envs', VPtr(p))]_vars

\* get-global-environment has been called after a define in the global environment
C26_Witness ==
    /\ env_call.op = "get-global-environment"
    /\ env_call.val = VPtr(0)
    /\ Len(envs) = 1
    /\ DOMAIN envs[1] = DOMAIN GlobalEnvironment \cup {"x"}

\* C27: for every controller text parse accepts, the AST written back as text
\* with the Display forms of its nodes and parsed again is structurally equal
\* to the first AST, for every kind of literal (integer, float such as 42.0,
\* string, symbol, nested and empty list) and every form of instruction.
C27_DisplayParseRoundTrip ==
    rt.phase = "reparsed" => rt.again.ok /\ rt.again.nodes = rt.first

\* the driver's own instructions have run to the end with both registers allocated
ListAssigned ==
    /\ ctl = "lst"
    /\ the_inst_seq = ListNodes
    /\ start_result = "Done"
    /\ {"a", "b"} \subseteq DOMAIN register_table

\* C28: a register assigned from a List(elements) right-hand side holds the
\* same Value as a register assigned from Constant(List(elements)) with the
\* same elements: same length, same elements, same list terminator, at every
\* nesting level.
C28_ListIsConstantList ==
    ListAssigned => register_table["a"] = register_table["b"]

\* the instruction fetched is (assign k (label X)) with k allocated
AssigningLabel ==
    /\ Fetching
    /\ Inst.t = "Assignment"
    /\ Inst.rhs.t = "Label"
    /\ Inst.reg \in DOMAIN register_table

\* the instruction fetched is (goto (reg k)) with k allocated
GoingThroughRegister ==
    /\ Fetching
    /\ Inst.t = "GotoLabel"
    /\ Inst.target.t = "Reg"
    /\ Inst.target.name \in DOMAIN register_table

\* the step ends where the goto with outcome b ends
LandsAs(b) ==
    /\ the_inst_seq' = (IF b.status = "ok" THEN the_labels[b.name] ELSE the_inst_seq)
    /\ pc' = (IF b.status = "ok" THEN reset_pc ELSE pc)
    /\ start_result' = (IF b.status = "ok" THEN start_result ELSE b.status)

\* C29: after (assign k (label X)) register k holds Symbol(X); a (goto (reg k))
\* executed while k holds Symbol(X) transfers control to the same place as
\* (goto (label X)); a (goto (reg k)) executed while k holds anything other
\* than a Symbol yields a type error and changes neither pc nor the current
\* instruction list.
C29_GotoThroughRegister ==
    [][/\ AssigningLabel => register_table'[Inst.reg] = VSym(Inst.rhs.name)
       /\ (GoingThroughRegister /\ register_table[Inst.target.name].k = "Symbol")
          => LandsAs(execute_goto(D, Label(register_table[Inst.target.name].v),
                                  DOMAIN the_labels))
       /\ (GoingThroughRegister /\ register_table[Inst.target.name].k # "Symbol")
          => /\ start_result' = "UnmatchedContentType"
             /\ pc' = pc
             /\ the_inst_seq' = the_inst_seq]_vars

\* the controller put the label out in a, went there through a, and done ran
C29_Witness ==
    /\ ctl = "ret"
    /\ make_result = "ok"
    /\ start_result = "Done"
    /\ register_table["a"] = VSym("out")
    /\ the_inst_seq = <<PerformOp(Operation("done", <<>>))>>
    /\ Len(done_list) = 1

\* the procedures make_machine installs for the controller c, in the order it
\* installs them: its own read and print, then the driver's
InstalledInOrder(c) ==
    << <<"read", Proc("read", 0)>>, <<"print", Proc("print", 1)>> >> \o UserProcedures(c)

NamesOf(list) == {list[i][1] : i \in 1..Len(list)}

\* the procedure installed last under the name in the list
LastInstalled(list, name) ==
    list[CHOOSE i \in 1..Len(list) :
            /\ list[i][1] = name
            /\ \A j \in 1..Len(list) : list[j][1] = name => j <= i][2]

\* C30: when several procedures are installed under one name, an invocation
\* of the name runs the one installed last; a procedure the driver hands to
\* make_machine under the name read or print is installed after the builder's
\* own and replaces it.
C30_LastInstalledProcedureRuns ==
    [][ProcedureReady
          => LET name == OperationOf(Inst).name
                 p == LastInstalled(InstalledInOrder(ctl), name)
                 r == ProcedureExecute(p, CurrentArgs(OperationOf(Inst).args), stdin)
             IN /\ the_ops[name] = p
                /\ (name \in {"read", "print"} /\ name \in NamesOf(UserProcedures(ctl)))
                     => p = LastInstalled(UserProcedures(ctl), name)
                /\ r.status # "ok" => start_result' = r.status
                /\ done_list' = (IF r.status = "ok" /\ p.fn = "done"
                                 THEN Append(done_list, 1) ELSE done_list)]_vars

\* the driver's print and its second tick have both run: each has appended to
\* the list of done
C30_Witness ==
    /\ ctl = "ovr"
    /\ make_result = "ok"
    /\ start_result = "Done"
    /\ done_list = <<1, 1>>

\* a call of allocate_register, get_register_content or set_register_content
\* is the step
ApiCall(op) == calls' = calls + 1 /\ api_result'.op = op

\* the instruction about to run writes the register r
WritesRegister(r) == Fetching /\ Inst.t \in {"Assignment", "Restore"} /\ Inst.reg = r

InstalledProgram == assemble(Controllers[ctl]).insts

\* C32: every call of start(), a second call after a run that jumped
\* included, begins at the first instruction of the program given to
\* install_instructions: pc is 0 and the instruction list is that program.
C32_StartBeginsAtInstalledProgram ==
    [][(make_result = "ok" /\ runs' = runs + 1)
          => /\ pc' = VNum(0)
             /\ the_inst_seq' = InstalledProgram]_vars

\* the instruction about to run is a branch or a goto
Jumping == Fetching /\ Inst.t \in {"Branch", "GotoLabel"}

\* C33: at every turn of the loop entered through start(), pc holds an integer
\* from 0 to the length of the current instruction list, and start() never
\* returns NoMoreInsts; pc changes only by plus one, after an instruction that
\* does not jump and leaves the list in place, or to zero, on a jump.
C33_PcStaysInsideTheInstructionList ==
    [][/\ phase' = "running"
            => pc'.k = "Num" /\ pc'.v \in 0..Len(the_inst_seq')
       /\ start_result' # "NoMoreInsts"
       /\ (phase = "running" /\ pc' # pc)
            => \/ /\ pc' = VNum(pc.v + 1)
                  /\ the_inst_seq' = the_inst_seq
               \/ /\ pc' = VNum(0)
                  /\ Jumping
                  /\ \E l \in DOMAIN the_labels : the_inst_seq' = the_labels[l]]_vars

\* a run that jumped has come to the end of the list it jumped to, past an
\* instruction of that list
C33_Witness ==
    /\ make_result = "ok"
    /\ phase = "running"
    /\ the_inst_seq # InstalledProgram
    /\ pc.k = "Num"
    /\ pc.v = Len(the_inst_seq)
    /\ pc.v >= 1

\* the instruction about to run ends start() with an error
InstructionFails == Fetching /\ phase' = "halted"

\* C34: when an instruction fails with an error, the registers, the flag, the
\* stack with its counters and pc are what they were just before it; a
\* Restore naming a register the table has not fails with LookupFailure and
\* leaves the top of the stack in place.
C34_FailedInstructionChangesNothing ==
    [][InstructionFails
          => /\ register_table' = register_table
             /\ flag' = flag
             /\ stack' = stack
             /\ pc' = pc
             /\ (Inst.t = "Restore" /\ Inst.reg \notin DOMAIN register_table
                   /\ stack.stack # <<>>)
                  => start_result' = "LookupFailure"]_vars

\* C35: allocate_register, called with any name, leaves the content of every
\* register that already exists as it is.
C35_AllocateKeepsExistingContents ==
    [][ApiCall("allocate")
          => \A r \in DOMAIN register_table :
                r \in DOMAIN register_table' /\ register_table'[r] = register_table[r]]_vars

\* what a lookup of the variable n through the pointer p gives in the table
LookupThrough(table, p, n) == EnvironmentLookup(table[p + 1], <<VSym(n)>>)

\* C36: an extend, on any env_ptr, changes no binding seen through a pointer
\* that was valid before it: a lookup of any variable through any of them
\* gives after the extend what it gave before.
C36_ExtendKeepsOtherEnvironments ==
    [][Succeeded("extend")
          => \A p \in 0..(Len(envs) - 1) :
                \A n \in DOMAIN envs[p + 1] \cup DOMAIN envs'[p + 1] :
                    LookupThrough(envs', p, n) = LookupThrough(envs, p, n)]_vars

\* the counters of the stack s agree with its items and with each other
CountersAgree(s) ==
    /\ s.curr_depth = Len(s.stack)
    /\ 0 <= s.curr_depth
    /\ s.curr_depth <= s.max_depth
    /\ s.max_depth <= s.num_pushes
    /\ is_empty(s) <=> (s.stack = <<>>)

\* the call just made was a pop that failed
PopFailed == api_result'.op = "pop" /\ api_result'.status # "ok"

\* C37: after any sequence of push, pop and initialize the current depth is
\* the number of stored items, 0 <= current depth <= maximum depth <=
\* cumulative pushes, and is_empty is true exactly when no item is stored; a
\* pop that fails changes neither the items nor a counter.
C37_StackCountersAgree ==
    [][/\ CountersAgree(stack)
       /\ CountersAgree(stack')
       /\ PopFailed => stack' = stack]_vars

\* a pop has failed on a stack that was pushed to and emptied by pops
C37_Witness ==
    /\ api_result.op = "pop"
    /\ api_result.status # "ok"
    /\ stack.num_pushes > 1
    /\ stack.max_depth > stack.curr_depth
    /\ is_empty(stack)

\* the instruction about to run is (perform (op op_name))
Performing(op_name) == Calling(op_name) /\ Inst.t = "PerformOp"

\* what a perform leaves alone when it succeeds: registers, flag, the list of
\* done; it moves pc on by one and the run goes on
PerformedOnlyBuiltin ==
    /\ register_table' = register_table
    /\ flag' = flag
    /\ done_list' = done_list
    /\ the_inst_seq' = the_inst_seq
    /\ pc' = VNum(pc.v + 1)
    /\ phase' = "running"

\* C38: (perform (op initialize-stack)) and (perform (op print-stack-statistics))
\* do what the machine's own stack operations do, on a machine with no
\* procedure installed and on one where a procedure was installed under
\* either name: the first empties the stack and zeroes its counters, the
\* second leaves the stack as it is, and neither runs the installed procedure.
C38_BuiltinNamesResolveToTheMachine ==
    [][/\ Performing("initialize-stack") => (stack' = NewStack /\ PerformedOnlyBuiltin)
       /\ Performing("print-stack-statistics") => (stack' = stack /\ PerformedOnlyBuiltin)]_vars

\* with procedures installed under both names, both performs have run after a
\* save: the stack is as new and the installed procedures never ran
C38_Witness ==
    /\ ctl = "blt"
    /\ {"initialize-stack", "print-stack-statistics"} \subseteq DOMAIN the_ops
    /\ phase = "running"
    /\ the_inst_seq = Tail(BuiltinNodes)
    /\ pc = VNum(3)
    /\ stack = NewStack
    /\ done_list = <<>>

\* the registers other than r hold what they held, and no register came or went
OtherRegistersKept(r) ==
    /\ DOMAIN register_table' = DOMAIN register_table
    /\ \A q \in DOMAIN register_table : q # r => register_table'[q] = register_table[q]

\* C39: an instruction changes only what its form names.  flag is written
\* only by a TestOp that succeeds, with a Boolean, and holds a Boolean from
\* then on; Save, PerformOp, TestOp, Branch and GotoLabel change no register;
\* Assignment and Restore change no register but their target; Branch and
\* GotoLabel change neither the flag nor the stack; the stack is changed only
\* by Save, by Restore and by a call of initialize-stack.
C39_InstructionsChangeOnlyWhatTheyName ==
    [][/\ flag' # flag
            => (Fetching /\ Inst.t = "TestOp" /\ phase' = "running" /\ flag'.k = "Boolean")
       /\ flag.k = "Boolean" => flag'.k = "Boolean"
       /\ (Fetching /\ Inst.t \in {"Save", "PerformOp", "TestOp", "Branch", "GotoLabel"})
            => register_table' = register_table
       /\ (Fetching /\ Inst.t \in {"Assignment", "Restore"})
            => OtherRegistersKept(Inst.reg)
       /\ Jumping => (flag' = flag /\ stack' = stack)
       /\ (Fetching /\ stack' # stack)
            => \/ Inst.t \in {"Save", "Restore"}
               \/ Calling("initialize-stack")]_vars

\* a run has ended in which a test wrote the flag, the branch and two gotos
\* jumped and an assignment wrote its target: the flag holds the Boolean and
\* the register the label
C39_Witness ==
    /\ ctl = "ret"
    /\ make_result = "ok"
    /\ phase = "halted"
    /\ runs = 1
    /\ flag = VBool(TRUE)
    /\ start_regs = [r \in {"a"} |-> VNum(0)]
    /\ register_table = [r \in {"a"} |-> VSym("out")]

\* the list l is the entry of some label of the table
EntryOfLabel(table, l) == \E name \in DOMAIN table : table[name] = l

\* C40: a run changes neither the label table nor the procedure table, and at
\* every step of a run the current instruction list is the list given to
\* install_instructions or the entry of a label of the installed table.
C40_RunKeepsTablesAndListsOfLabels ==
    [][/\ phase = "running"
            => /\ the_labels' = the_labels
               /\ the_ops' = the_ops
               /\ \/ the_inst_seq' = the_inst_seq
                  \/ EntryOfLabel(the_labels, the_inst_seq')
       /\ (make_result = "ok" /\ phase' = "running")
            => /\ the_labels' = assemble(Controllers[ctl]).labels
               /\ \/ the_inst_seq' = InstalledProgram
                  \/ EntryOfLabel(the_labels', the_inst_seq')]_vars

\* the run has branched to viareg and executed the first instruction of that
\* label's list
C40_Witness ==
    /\ ctl = "ret"
    /\ make_result = "ok"
    /\ phase = "running"
    /\ the_inst_seq # InstalledProgram
    /\ the_inst_seq = the_labels["viareg"]
    /\ pc = VNum(1)

====
